---------------------------- MODULE Spec2Model ----------------------------
(***************************************************************************)
(* Model of the fetch-URL resolver (src/src/url-helper.ts), of the proxy   *)
(* diagnostics of getSource / configureGitProxy and of the mirror selector *)
(* cache SmartMirrorSelector and detectBestMirror                          *)
(* (src/src/git-source-provider.ts), and of the archive download stage of  *)
(* downloadRepository (src/unnamed/part_000).                              *)
(*                                                                         *)
(* A JavaScript string is modelled as the sequence of its characters, each *)
(* character a one-character TLA+ string, so that trimming, the regular    *)
(* expressions and the URL parser act on the text as the code does.       *)
(* undefined and '' are both falsy in every test the code makes on a       *)
(* string setting; both are modelled by the empty sequence.               *)
(***************************************************************************)
EXTENDS Integers, Sequences, FiniteSets, TLC

VARIABLES
  settings,          \* IGitSourceSettings handed to getSource
  env,               \* process.env (GITHUB_SERVER_URL)
  gitAvailable,      \* getGitCommandManager returned a git (not undefined)
  upc,               \* position of getSource: "start", "logged", "resolved", "done", "failed"
  fetchUrl,          \* repositoryUrl returned by getFetchUrl, NoValue before
  diag,              \* diagnostic lines emitted so far through core.*
  mirrors,           \* SmartMirrorSelector.mirrors
  cachedBestMirror,  \* SmartMirrorSelector.cachedBestMirror
  lastDetection,     \* SmartMirrorSelector.lastDetection
  clock,             \* the wall clock read by new Date()
  calls,             \* getBestMirror calls made so far, finished or awaiting detection
  lastWriter,        \* index in calls of the call that wrote the cache last, 0 if none
  lastOp,            \* the selector operation that ran last (history)
  dList,             \* detectBestMirror: its mirrors argument
  probes,            \* detectBestMirror: the promise of each candidate's probe
  dpc,               \* detectBestMirror: "idle", "probing" (awaiting allSettled), "done"
  dResult,           \* detectBestMirror: the value it resolved to, NoValue before
  dlIn,              \* downloadRepository: its arguments; ref is assigned at line 29
  dlEnv,             \* process.env (GITHUB_AUTO_MIRROR, GITHUB_API_URL)
  dlpc,              \* downloadRepository: "idle", "archive", "detect", "mirror", "direct", "thrown", "done", "failed"
  attempt,           \* number of the downloadArchive attempt under way, 0 before
  dlVia,             \* how the attempt was routed: "none", "proxy", "auto"
  archiveUrl,        \* downloadArchive: originalUrl of this attempt, <<>> before
  dlMirror,          \* proxyUrl argument of downloadWithMirrorProxy in this attempt
  inCatch,           \* downloadWithAutoMirror is in its catch block
  requests,          \* archive requests fetch has been called with, and their outcome
  warnings,          \* core.warning lines of the download stage
  rounds,            \* detectBestMirror calls made by the download stage
  dlError,           \* message of the error thrown last, <<>> if none
  lookups,           \* getDefaultBranch: the responses of its repos.get calls
  archive,           \* top-level entries of the archive the server sends, with their children
  target,            \* names of the entries of repositoryPath
  staging,           \* entries of the staging directory <uuid>, <<>> when empty or absent
  moved,             \* downloadRepository: children relocated by the loop at lines 69-78
  mpBase,            \* new GitHubMirrorProxy(baseUrl, config): its baseUrl argument
  mpOverride,        \* new GitHubMirrorProxy(baseUrl, config): its config argument, <<>> if none
  mpConfig,          \* GitHubMirrorProxy.config
  mpLog,             \* what the proxy object has printed: debug line, reports
  mpInfo,            \* the MirrorProxyInfo convertToProxyUrl returned last
  mpc,               \* the proxy object: "idle", "new", "ready", "threw"
  gsIn,              \* getSource: the settings its credential handling reads, and whether git was found
  gspc,              \* getSource: the step of its try block that comes next, "finally", "returned", "failed"
  authHelper,        \* getSource: authHelper is not null
  authCalls,         \* methods of the auth helper called so far, in order
  gitConfig,         \* what the auth helper has configured and not removed
  gsError            \* getSource: message of the pending or final error, <<>> if none

urlVars == <<settings, env, gitAvailable, upc, fetchUrl, diag>>
selVars == <<mirrors, cachedBestMirror, lastDetection, clock, calls, lastWriter,
            lastOp>>
detVars == <<dList, probes, dpc, dResult>>
dlVars == <<dlIn, dlEnv, dlpc, attempt, dlVia, archiveUrl, dlMirror, inCatch, requests,
           warnings, rounds, dlError>>
repoVars == <<lookups, archive, target, staging, moved>>
proxyVars == <<mpBase, mpOverride, mpConfig, mpLog, mpInfo, mpc>>
authVars == <<gsIn, gspc, authHelper, authCalls, gitConfig, gsError>>
vars == <<settings, env, gitAvailable, upc, fetchUrl, diag,
          mirrors, cachedBestMirror, lastDetection, clock, calls, lastWriter,
          lastOp, dList, probes, dpc, dResult,
          dlIn, dlEnv, dlpc, attempt, dlVia, archiveUrl, dlMirror, inCatch, requests,
          warnings, rounds, dlError,
          lookups, archive, target, staging, moved,
          mpBase, mpOverride, mpConfig, mpLog, mpInfo, mpc,
          gsIn, gspc, authHelper, authCalls, gitConfig, gsError>>

\* The variables an action of getSource, of the selector, of detectBestMirror,
\* of downloadRepository, of the proxy object leaves alone because they belong
\* to another part of the program.
notUrlVars == <<selVars, detVars, dlVars, repoVars, proxyVars, authVars>>
notSelVars == <<urlVars, detVars, dlVars, repoVars, proxyVars, authVars>>
notDetVars == <<urlVars, selVars, dlVars, repoVars, proxyVars, authVars>>
notDlVars == <<urlVars, selVars, detVars, repoVars, proxyVars, authVars>>
notRepoVars == <<urlVars, selVars, detVars, proxyVars, authVars>>
notProxyVars == <<urlVars, selVars, detVars, dlVars, repoVars, authVars>>
notAuthVars == <<urlVars, selVars, detVars, dlVars, repoVars, proxyVars>>

\* Stands for a variable that holds nothing yet.
NoValue == <<"<none>">>

\* GitHubMirrorProxy.config before the constructor has run.
NoConfig == [baseUrl |-> <<>>, authUsername |-> <<>>, authToken |-> <<>>]

\* mpInfo before convertToProxyUrl has been called.
NoInfo ==
  [originalUrl |-> <<>>, proxyUrl |-> <<>>, mirrorDomain |-> <<>>,
   isSupported |-> FALSE, hasAuth |-> FALSE]

\* gsIn outside getSource.
NoSource ==
  [git |-> FALSE, persistCredentials |-> FALSE, setSafeDirectory |-> FALSE,
   submodules |-> FALSE, sshKey |-> FALSE]

(***************************************************************************)
(* String helpers (String.prototype)                                       *)
(***************************************************************************)

\* The smallest element of a non-empty set of integers.
MinOf(S) == CHOOSE x \in S : \A y \in S : x <= y

\* The largest element of a non-empty set of integers.
MaxOf(S) == CHOOSE x \in S : \A y \in S : x >= y

\* First index >= from at which s holds a character of cs, 0 if there is none.
IndexOfAny(s, cs, from) ==
  LET I == {i \in from..Len(s) : s[i] \in cs}
  IN IF I = {} THEN 0 ELSE MinOf(I)

\* s.indexOf(c): 1-based, 0 when absent.
IndexOf(s, c) == IndexOfAny(s, {c}, 1)

\* s.lastIndexOf(c): 1-based, 0 when absent.
LastIndexOf(s, c) ==
  LET I == {i \in 1..Len(s) : s[i] = c}
  IN IF I = {} THEN 0 ELSE MaxOf(I)

\* s.includes(t)
Includes(s, t) ==
  \E i \in 1..(Len(s) + 1) :
    /\ i + Len(t) - 1 <= Len(s)
    /\ SubSeq(s, i, i + Len(t) - 1) = t

\* White space as String.prototype.trim sees it (the inputs use the space only).
WhiteSpace == {" "}

\* s.trim()
Trim(s) ==
  LET I == {i \in 1..Len(s) : s[i] \notin WhiteSpace}
  IN IF I = {} THEN <<>> ELSE SubSeq(s, MinOf(I), MaxOf(I))

\* s.replace(/\/$/, ''): one trailing slash removed.
StripTrailingSlash(s) ==
  IF Len(s) > 0 /\ s[Len(s)] = "/" THEN SubSeq(s, 1, Len(s) - 1) ELSE s

\* Characters encodeURIComponent leaves alone differ from these, which it escapes.
UriComponentEscapes ==
  [c \in {" ", "/", ":", "@", "?", "#"} |->
     CASE c = " " -> <<"%","2","0">>
       [] c = "/" -> <<"%","2","F">>
       [] c = ":" -> <<"%","3","A">>
       [] c = "@" -> <<"%","4","0">>
       [] c = "?" -> <<"%","3","F">>
       [] c = "#" -> <<"%","2","3">>]

RECURSIVE EscapeWith(_, _)
\* Each character of s that esc maps is replaced by its escape.
EscapeWith(s, esc) ==
  IF s = <<>> THEN <<>>
  ELSE (IF Head(s) \in DOMAIN esc THEN esc[Head(s)] ELSE <<Head(s)>>)
         \o EscapeWith(Tail(s), esc)

\* encodeURIComponent(s)
EncodeURIComponent(s) == EscapeWith(s, UriComponentEscapes)

(***************************************************************************)
(* The WHATWG URL class, for the inputs of the model: either               *)
(* <scheme>://[user[:password]@]host[:port][/path] or a text without ':'   *)
(* (which new URL rejects: a relative reference and no base).              *)
(***************************************************************************)

\* What new URL(x) throwing yields in the model.
InvalidUrl ==
  [ok |-> FALSE, protocol |-> <<>>, username |-> <<>>, password |-> <<>>,
   hostname |-> <<>>, port |-> <<>>, pathname |-> <<>>]

\* new URL(input) for an input without leading or trailing white space.
ParseTrimmedUrl(s) ==
  LET colon == IndexOf(s, ":")
      slash == IndexOfAny(s, {"/"}, colon + 3)
      authEnd == IF slash = 0 THEN Len(s) ELSE slash - 1
      authority == SubSeq(s, colon + 3, authEnd)
      at == LastIndexOf(authority, "@")
      userinfo == SubSeq(authority, 1, at - 1)
      ucolon == IndexOf(userinfo, ":")
      hostport == SubSeq(authority, at + 1, Len(authority))
      pcolon == IndexOf(hostport, ":")
  IN IF \/ colon <= 1
        \/ Len(s) < colon + 2
        \/ SubSeq(s, colon + 1, colon + 2) # <<"/","/">>
        \/ hostport = <<>>
        \/ pcolon = 1
     THEN InvalidUrl
     ELSE [ok |-> TRUE,
           protocol |-> SubSeq(s, 1, colon),
           username |-> IF ucolon = 0 THEN userinfo
                        ELSE SubSeq(userinfo, 1, ucolon - 1),
           password |-> IF ucolon = 0 THEN <<>>
                        ELSE SubSeq(userinfo, ucolon + 1, Len(userinfo)),
           hostname |-> IF pcolon = 0 THEN hostport
                        ELSE SubSeq(hostport, 1, pcolon - 1),
           port |-> IF pcolon = 0 THEN <<>>
                    ELSE SubSeq(hostport, pcolon + 1, Len(hostport)),
           pathname |-> IF slash = 0 THEN <<"/">>
                        ELSE SubSeq(s, slash, Len(s))]

\* new URL(input): the parser first strips leading and trailing spaces.
ParseUrl(s) == ParseTrimmedUrl(Trim(s))

\* url.host
UrlHost(u) == u.hostname \o (IF u.port = <<>> THEN <<>> ELSE <<":">> \o u.port)

\* url.origin
UrlOrigin(u) == u.protocol \o <<"/","/">> \o UrlHost(u)

\* url.toString() / url.href
UrlToString(u) ==
  u.protocol \o <<"/","/">>
    \o (IF u.username = <<>> /\ u.password = <<>> THEN <<>>
        ELSE u.username
               \o (IF u.password = <<>> THEN <<>> ELSE <<":">> \o u.password)
               \o <<"@">>)
    \o UrlHost(u) \o u.pathname

\* The characters the username and password setters percent-encode.
UserinfoEscapes ==
  [c \in {" ", "/", ":", "@", "?", "#"} |-> UriComponentEscapes[c]]

\* url.username = v
SetUsername(u, v) == [u EXCEPT !.username = EscapeWith(v, UserinfoEscapes)]

\* url.password = v
SetPassword(u, v) == [u EXCEPT !.password = EscapeWith(v, UserinfoEscapes)]

(***************************************************************************)
(* url-helper.ts                                                           *)
(***************************************************************************)

\* One line handed to core.debug/info/notice/warning/error: its level, the
\* source line that emits it and the text interpolated into its template (the
\* fixed words of the template carry nothing of the settings and are left out).
Line(level, at, text) == [level |-> level, at |-> at, text |-> text]

\* 'https://github.com', the server of last resort.
DefaultServerUrl == <<"h","t","t","p","s",":","/","/","g","i","t","h","u","b",".","c","o","m">>

\* The fixed password addAuthToUrl sets.
OauthBasic == <<"x","-","o","a","u","t","h","-","b","a","s","i","c">>

\* hasContent(text, WhitespaceMode.Trim)
HasContentTrim(text) == Len(Trim(text)) > 0

\* getServerUrl(url): the URL object of the server, InvalidUrl when new URL throws.
GetServerUrl(url, e) ==
  LET fromEnv == IF e.GITHUB_SERVER_URL # <<>> THEN e.GITHUB_SERVER_URL
                 ELSE DefaultServerUrl
      resolvedUrl == IF HasContentTrim(url) THEN url ELSE fromEnv
  IN ParseUrl(resolvedUrl)

\* getProxyUrl(originalUrl, proxyPrefix): the template literal in the try block
\* cannot throw, so the catch (warning, originalUrl returned) is dead code.
GetProxyUrl(originalUrl, proxyPrefix) ==
  LET cleanPrefix == StripTrailingSlash(Trim(proxyPrefix))
      proxyUrl == cleanPrefix \o <<"/">> \o originalUrl
  IN [value |-> proxyUrl,
      diag |-> <<Line("debug", "getProxyUrl:154", proxyUrl)>>]

\* validateProxyUrl(proxyUrl)
ValidateProxyUrl(proxyUrl) ==
  IF proxyUrl = <<>> \/ Trim(proxyUrl) = <<>> THEN TRUE
  ELSE LET url == ParseUrl(Trim(proxyUrl))
       IN url.ok /\ url.protocol \in {<<"h","t","t","p",":">>, <<"h","t","t","p","s",":">>}

\* hideUrlCredentials(url): url.replace(/:([^:@]+)@/, ':***@'). The leftmost ':'
\* that is followed by one or more characters other than ':' and '@' and then by
\* '@' is the match; only that match is replaced.
HideUrlCredentials(url) ==
  LET Match(i) ==
        LET j == IndexOfAny(url, {":", "@"}, i + 1)
        IN IF url[i] = ":" /\ j > i + 1 /\ url[j] = "@" THEN j ELSE 0
      I == {i \in 1..Len(url) : Match(i) # 0}
  IN IF I = {} THEN url
     ELSE LET i == MinOf(I)
          IN SubSeq(url, 1, i - 1) \o <<":","*","*","*","@">>
               \o SubSeq(url, Match(i) + 1, Len(url))

\* addAuthToUrl(url, authToken)
AddAuthToUrl(url, authToken) ==
  LET urlObj == ParseUrl(url)
  IN IF ~urlObj.ok
     THEN [value |-> url,
           diag |-> <<Line("warning", "addAuthToUrl:192", url)>>]
     ELSE [value |-> UrlToString(
                       SetPassword(SetUsername(urlObj, authToken), OauthBasic)),
           diag |-> <<>>]

\* getProxyUrlWithEmbeddedAuth(originalUrl, proxyUrl)
GetProxyUrlWithEmbeddedAuth(originalUrl, proxyUrl) ==
  LET cleanProxy == StripTrailingSlash(Trim(proxyUrl))
      finalUrl == cleanProxy \o <<"/">> \o originalUrl
  IN [value |-> finalUrl,
      diag |-> <<Line("debug", "getProxyUrlWithEmbeddedAuth:206",
                      HideUrlCredentials(finalUrl))>>]

\* `${settings.repositoryOwner}/${settings.repositoryName}`
RepositorySlug(s) == s.repositoryOwner \o <<"/">> \o s.repositoryName

\* The value getFetchUrl returns when an assertion or new URL throws.
FetchUrlThrew == [threw |-> TRUE, value |-> NoValue, diag |-> <<>>]

\* getFetchUrl throws: an assert.ok fails or getServerUrl's new URL throws.
FetchUrlThrows(s, e) ==
  \/ s.repositoryOwner = <<>>
  \/ s.repositoryName = <<>>
  \/ ~GetServerUrl(s.githubServerUrl, e).ok

\* originUrl of getFetchUrl: `${serviceUrl.origin}/${encodedOwner}/${encodedName}`
OriginUrl(s, e) ==
  UrlOrigin(GetServerUrl(s.githubServerUrl, e)) \o <<"/">>
    \o EncodeURIComponent(s.repositoryOwner) \o <<"/">>
    \o EncodeURIComponent(s.repositoryName)

\* hasProxyUrl of getFetchUrl
FetchHasProxyUrl(s) == s.githubProxyUrl # <<>> /\ Trim(s.githubProxyUrl) # <<>>

\* hasProxyAuth of getFetchUrl: false when there is no proxy or new URL throws.
FetchHasProxyAuth(s) ==
  /\ FetchHasProxyUrl(s)
  /\ LET proxyUrlObj == ParseUrl(Trim(s.githubProxyUrl))
     IN proxyUrlObj.ok /\ proxyUrlObj.username # <<>> /\ proxyUrlObj.password # <<>>

\* settings.authToken && settings.authToken.trim()
FetchHasAuthToken(s) == s.authToken # <<>> /\ Trim(s.authToken) # <<>>

\* getFetchUrl lines 19-24: the SSH branch.
SshBranch(s, e) ==
  LET user == IF Len(s.sshUser) > 0 THEN s.sshUser ELSE <<"g","i","t">>
      sshUrl == user \o <<"@">> \o GetServerUrl(s.githubServerUrl, e).hostname
                  \o <<":">> \o EncodeURIComponent(s.repositoryOwner) \o <<"/">>
                  \o EncodeURIComponent(s.repositoryName) \o <<".","g","i","t">>
  IN [threw |-> FALSE, value |-> sshUrl,
      diag |-> <<Line("info", "getFetchUrl:22", sshUrl)>>]

\* getFetchUrl lines 44-54: proxy URL with embedded authentication.
ProxyAuthBranch(s, e) ==
  LET originUrl == OriginUrl(s, e)
      embedded == GetProxyUrlWithEmbeddedAuth(originUrl, s.githubProxyUrl)
  IN [threw |-> FALSE, value |-> embedded.value,
      diag |-> embedded.diag \o
        <<Line("notice", "getFetchUrl:49", RepositorySlug(s)),
          Line("notice", "getFetchUrl:50", originUrl),
          Line("notice", "getFetchUrl:51", HideUrlCredentials(s.githubProxyUrl)),
          Line("notice", "getFetchUrl:52", HideUrlCredentials(embedded.value))>>]

\* getFetchUrl lines 55-65: proxy URL without embedded authentication.
ProxyBranch(s, e) ==
  LET originUrl == OriginUrl(s, e)
      plain == GetProxyUrl(originUrl, s.githubProxyUrl)
  IN [threw |-> FALSE, value |-> plain.value,
      diag |-> plain.diag \o
        <<Line("notice", "getFetchUrl:60", RepositorySlug(s)),
          Line("notice", "getFetchUrl:61", originUrl),
          Line("notice", "getFetchUrl:62", s.githubProxyUrl),
          Line("notice", "getFetchUrl:63", plain.value)>>]

\* getFetchUrl lines 66-75: no proxy, the token of the settings.
TokenBranch(s, e) ==
  LET originUrl == OriginUrl(s, e)
      auth == AddAuthToUrl(originUrl, s.authToken)
  IN [threw |-> FALSE, value |-> auth.value,
      diag |-> auth.diag \o
        <<Line("notice", "getFetchUrl:71", RepositorySlug(s)),
          Line("notice", "getFetchUrl:72", originUrl),
          Line("notice", "getFetchUrl:73", HideUrlCredentials(auth.value))>>]

\* getFetchUrl lines 76-80: the direct connection.
DirectBranch(s, e) ==
  LET originUrl == OriginUrl(s, e)
  IN [threw |-> FALSE, value |-> originUrl,
      diag |-> <<Line("notice", "getFetchUrl:78", originUrl)>>]

\* getFetchUrl with the proxy branches tested before the SSH key.
GetFetchUrl_ProxyBeforeSsh(s, e) ==
  IF FetchUrlThrows(s, e) THEN FetchUrlThrew
  ELSE IF FetchHasProxyUrl(s) /\ FetchHasProxyAuth(s) THEN ProxyAuthBranch(s, e)
  ELSE IF FetchHasProxyUrl(s) /\ ~FetchHasProxyAuth(s) THEN ProxyBranch(s, e)
  ELSE IF s.sshKey # <<>> THEN SshBranch(s, e)
  ELSE IF ~FetchHasProxyUrl(s) /\ FetchHasAuthToken(s) THEN TokenBranch(s, e)
  ELSE DirectBranch(s, e)

\* getFetchUrl with the auth token tested before the proxy branches.
GetFetchUrl_TokenBeforeProxy(s, e) ==
  IF FetchUrlThrows(s, e) THEN FetchUrlThrew
  ELSE IF s.sshKey # <<>> THEN SshBranch(s, e)
  ELSE IF FetchHasAuthToken(s) THEN TokenBranch(s, e)
  ELSE IF FetchHasProxyUrl(s) /\ FetchHasProxyAuth(s) THEN ProxyAuthBranch(s, e)
  ELSE IF FetchHasProxyUrl(s) /\ ~FetchHasProxyAuth(s) THEN ProxyBranch(s, e)
  ELSE DirectBranch(s, e)

\* getFetchUrl(settings): [threw, value, diag], diag the lines it emits in order.
\* The assertions and getServerUrl come first (lines 8-14), then the SSH key
\* (line 19), then the chain of lines 44, 55, 66 and 76.
GetFetchUrl(s, e) ==
  IF FetchUrlThrows(s, e) THEN FetchUrlThrew
  ELSE IF s.sshKey # <<>> THEN SshBranch(s, e)
  ELSE IF FetchHasProxyUrl(s) /\ FetchHasProxyAuth(s) THEN ProxyAuthBranch(s, e)
  ELSE IF FetchHasProxyUrl(s) /\ ~FetchHasProxyAuth(s) THEN ProxyBranch(s, e)
  ELSE IF ~FetchHasProxyUrl(s) /\ FetchHasAuthToken(s) THEN TokenBranch(s, e)
  ELSE DirectBranch(s, e)

\* testProxyConnection(proxyUrl, targetUrl) up to its fetch: the lines it emits.
\* An absent targetUrl takes the default 'https://github.com'.
TestProxyConnectionDiag(proxyUrl, targetUrl) ==
  IF ~ValidateProxyUrl(proxyUrl) THEN <<>>
  ELSE LET test == GetProxyUrl(
                     IF targetUrl = <<>> THEN DefaultServerUrl ELSE targetUrl,
                     proxyUrl)
       IN test.diag \o
            <<Line("debug", "testProxyConnection:230",
                   HideUrlCredentials(test.value))>>

(***************************************************************************)
(* git-source-provider.ts: getSource up to the git proxy configuration     *)
(***************************************************************************)

\* The lines of getSource's proxy banner (lines 24-39).
GetSourceProxyDiag(s) ==
  IF s.githubProxyUrl # <<>> /\ Trim(s.githubProxyUrl) # <<>>
  THEN <<Line("notice", "getSource:27", s.githubProxyUrl),
         Line("notice", "getSource:28",
              IF s.githubServerUrl # <<>> THEN s.githubServerUrl
              ELSE DefaultServerUrl),
         Line("notice", "getSource:29", RepositorySlug(s))>>
  ELSE <<>>

\* configureGitProxy(git, settings): [threw, diag]. testOk is the outcome of the
\* connection test, configOk whether the git.config calls succeed.
ConfigureGitProxy(s, testOk, configOk) ==
  LET proxyUrl == Trim(s.githubProxyUrl)
      invalid == <<"E","r","r","o","r",":"," ","I","n","v","a","l","i","d"," ","p","r","o","x","y"," ","U","R","L"," ","f","o","r","m","a","t",":"," ">> \o proxyUrl
      serverUrl == IF s.githubServerUrl # <<>> THEN s.githubServerUrl
                   ELSE DefaultServerUrl
      server == ParseUrl(serverUrl)
      tested == <<Line("notice", "configureGitProxy:384", proxyUrl)>>
                  \o TestProxyConnectionDiag(proxyUrl, s.githubServerUrl)
                  \o (IF testOk THEN <<>>
                      ELSE <<Line("warning", "configureGitProxy:393", <<>>)>>)
  IN IF proxyUrl = <<>> THEN [threw |-> FALSE, diag |-> <<>>]
     ELSE IF ~ValidateProxyUrl(proxyUrl)
     THEN [threw |-> TRUE,
           diag |-> <<Line("error", "configureGitProxy:381", proxyUrl),
                      Line("error", "configureGitProxy:423", invalid)>>]
     ELSE IF ~server.ok \/ ~configOk
     THEN [threw |-> TRUE,
           diag |-> tested \o <<Line("error", "configureGitProxy:423", <<>>)>>]
     ELSE [threw |-> FALSE,
           diag |-> tested \o
             <<Line("notice", "configureGitProxy:403",
                    <<"h","t","t","p",".","h","t","t","p","s",":","/","/">> \o server.hostname \o <<"/",".","p","r","o","x","y"," ","="," ">>
                      \o proxyUrl),
               Line("notice", "configureGitProxy:408",
                    <<"h","t","t","p",".","h","t","t","p",":","/","/">> \o server.hostname \o <<"/",".","p","r","o","x","y"," ","="," ">>
                      \o proxyUrl),
               Line("notice", "configureGitProxy:412", proxyUrl)>>]

(***************************************************************************)
(* git-source-provider.ts: detectBestMirror and SmartMirrorSelector        *)
(***************************************************************************)

\* Number of mirror URLs the selector is constructed with (POPULAR_GITHUB_MIRRORS
\* holds five; the model numbers the URLs 1..NumMirrors in list order).
NumMirrors == 2

\* Largest responseTime a probe reports, in clock ticks.
MaxLatency == 2

\* The selector's detectionInterval (constructor parameter), in clock ticks.
DetectionInterval == 1

\* Number of getBestMirror calls a behaviour makes.
MaxCalls == 2

\* Last value of the clock: late enough for a cache entry to expire.
MaxClock == DetectionInterval + 1

MirrorUrls == 1..NumMirrors

\* null / undefined where a mirror is expected.
Null == 0

\* null where a Date is expected.
NoDate == -1

\* The record of the selector operation that ran last: its name, the mirror it
\* was given (Null if none) and whether it cleared the cache.
Op(name, mirror, cleared) == [op |-> name, mirror |-> mirror, cleared |-> cleared]

\* No operation has run on the selector yet.
NoOp == Op("none", Null, FALSE)

\* The elements of a sequence.
Range(s) == {s[i] : i \in 1..Len(s)}

\* What one probe promise of detectBestMirror settles to: rejected (the
\* GitHubMirrorProxy constructor threw), or fulfilled with checkAvailability's
\* available flag and responseTime.
ProbeOutcomes ==
  [fulfilled : {TRUE}, available : BOOLEAN, responseTime : 1..MaxLatency]
    \cup [fulfilled : {FALSE}, available : {FALSE}, responseTime : {0}]

\* 'unknown', the mirror detectBestMirror reports for a rejected probe.
Unknown == -2

\* The value a probe promise is fulfilled with: { mirror, available, responseTime }.
ProbeValue(mirror, o) ==
  [mirror |-> mirror, available |-> o.available, responseTime |-> o.responseTime]

RECURSIVE InsertByTime(_, _)
\* sorted with x put behind every element whose responseTime is not larger.
InsertByTime(sorted, x) ==
  IF sorted = <<>> THEN <<x>>
  ELSE IF Head(sorted).responseTime <= x.responseTime
       THEN <<Head(sorted)>> \o InsertByTime(Tail(sorted), x)
       ELSE <<x>> \o sorted

RECURSIVE SortByTime(_)
\* s.sort((a, b) => a.responseTime - b.responseTime); Array.prototype.sort is
\* stable: elements of equal responseTime keep their order.
SortByTime(s) ==
  IF s = <<>> THEN <<>>
  ELSE InsertByTime(SortByTime(SubSeq(s, 1, Len(s) - 1)), s[Len(s)])

\* results of detectBestMirror: what Promise.allSettled resolves to, one entry
\* per element of list, in list order. outcome[i] is what the probe of list[i]
\* settled to.
SettledResults(list, outcome) ==
  [i \in 1..Len(list) |->
     [status |-> IF outcome[i].fulfilled THEN "fulfilled" ELSE "rejected",
      value |-> ProbeValue(list[i], outcome[i])]]

\* successfulResults of detectBestMirror: fulfilled, then available, then sorted.
SuccessfulResults(list, outcome) ==
  LET results == SettledResults(list, outcome)
      fulfilled == SelectSeq(results, LAMBDA r : r.status = "fulfilled")
      values == [i \in 1..Len(fulfilled) |-> fulfilled[i].value]
  IN SortByTime(SelectSeq(values, LAMBDA v : v.available))

\* allResults of detectBestMirror
AllResults(list, outcome, timeout) ==
  LET results == SettledResults(list, outcome)
  IN [i \in 1..Len(list) |->
        IF results[i].status = "fulfilled" THEN results[i].value
        ELSE [mirror |-> Unknown, available |-> FALSE, responseTime |-> timeout]]

\* detectBestMirror that sorts every fulfilled result, available or not.
DetectBestMirror_SortsUnavailable(list, outcome) ==
  LET results == SettledResults(list, outcome)
      fulfilled == SelectSeq(results, LAMBDA r : r.status = "fulfilled")
      values == SortByTime([i \in 1..Len(fulfilled) |-> fulfilled[i].value])
  IN [bestMirror |-> IF Len(values) > 0 THEN values[1].mirror ELSE Null]

\* detectBestMirror(list) once every probe has settled: bestMirror is the mirror
\* of the first of successfulResults, Null (undefined) when there is none.
DetectBestMirror(list, outcome) ==
  LET successfulResults == SuccessfulResults(list, outcome)
  IN [bestMirror |-> IF Len(successfulResults) > 0
                     THEN successfulResults[1].mirror ELSE Null]

\* The test with the cache expiring when its age reaches the interval.
NeedsDetection_AtExpiry(forceDetection, now) ==
  \/ forceDetection
  \/ lastDetection = NoDate
  \/ cachedBestMirror = Null
  \/ now - lastDetection >= DetectionInterval

\* getBestMirror's test: forceDetection || !lastDetection || !cachedBestMirror
\* || now - lastDetection > detectionInterval
NeedsDetection(forceDetection, now) ==
  \/ forceDetection
  \/ lastDetection = NoDate
  \/ cachedBestMirror = Null
  \/ now - lastDetection > DetectionInterval

\* The record of one getBestMirror call. now, needsDetection and list are the
\* call's locals (list is the array detectBestMirror maps over when it is
\* called); pc is "detecting" while the call awaits detectBestMirror and "done"
\* once it has returned ret; detected is detection.bestMirror. The array is
\* garbage once detectBestMirror has settled: list is emptied then.
Call(forceDetection, now, needs) ==
  [forceDetection |-> forceDetection,
   now |-> now,
   needsDetection |-> needs,
   list |-> IF needs THEN mirrors ELSE <<>>,
   detected |-> Null,
   pc |-> IF needs THEN "detecting" ELSE "done",
   ret |-> IF needs THEN Null ELSE cachedBestMirror]

\* getBestMirror(forceDetection) from its entry to its await of detectBestMirror,
\* or to its return when no detection is needed.
GetBestMirrorBegin(forceDetection) ==
  /\ Len(calls) < MaxCalls
  /\ calls' = Append(calls,
                Call(forceDetection, clock,
                     NeedsDetection(forceDetection, clock)))
  /\ lastOp' = Op("getBestMirror", Null, FALSE)
  /\ UNCHANGED <<mirrors, cachedBestMirror, lastDetection, clock, lastWriter>>
  /\ UNCHANGED notSelVars

\* The continuation of getBestMirror that keeps a lastDetection already set.
GetBestMirrorSettle_KeepStamp(i, outcome) ==
  LET detection == DetectBestMirror(calls[i].list, outcome)
  IN /\ calls[i].pc = "detecting"
     /\ cachedBestMirror' = detection.bestMirror
     /\ lastDetection' = IF lastDetection = NoDate THEN calls[i].now
                         ELSE lastDetection
     /\ calls' = [calls EXCEPT ![i].pc = "done",
                               ![i].list = <<>>,
                               ![i].detected = detection.bestMirror,
                               ![i].ret = detection.bestMirror]
     /\ lastWriter' = i
     /\ lastOp' = Op("settle", Null, FALSE)
     /\ UNCHANGED <<mirrors, clock>>
     /\ UNCHANGED notSelVars

\* The continuation of getBestMirror that stores a detection only when it
\* found a mirror.
GetBestMirrorSettle_KeepStale(i, outcome) ==
  LET detection == DetectBestMirror(calls[i].list, outcome)
      found == detection.bestMirror # Null
  IN /\ calls[i].pc = "detecting"
     /\ cachedBestMirror' = IF found THEN detection.bestMirror
                            ELSE cachedBestMirror
     /\ lastDetection' = calls[i].now
     /\ calls' = [calls EXCEPT ![i].pc = "done",
                               ![i].list = <<>>,
                               ![i].detected = detection.bestMirror,
                               ![i].ret = cachedBestMirror']
     /\ lastWriter' = i
     /\ lastOp' = Op("settle", Null, FALSE)
     /\ UNCHANGED <<mirrors, clock>>
     /\ UNCHANGED notSelVars

\* getBestMirror after its await: detectBestMirror has settled for call i, the
\* cache is written and the call returns (lines 843-847, no suspension between).
GetBestMirrorSettle(i, outcome) ==
  LET detection == DetectBestMirror(calls[i].list, outcome)
  IN /\ calls[i].pc = "detecting"
     /\ cachedBestMirror' = detection.bestMirror
     /\ lastDetection' = calls[i].now
     /\ calls' = [calls EXCEPT ![i].pc = "done",
                               ![i].list = <<>>,
                               ![i].detected = detection.bestMirror,
                               ![i].ret = cachedBestMirror']
     /\ lastWriter' = i
     /\ lastOp' = Op("settle", Null, FALSE)
     /\ UNCHANGED <<mirrors, clock>>
     /\ UNCHANGED notSelVars

\* addMirror that pushes without looking for the mirror in the list.
AddMirror_NoCheck(mirror) ==
  /\ mirrors' = Append(mirrors, mirror)
  /\ lastOp' = Op("addMirror", mirror, FALSE)
  /\ UNCHANGED <<cachedBestMirror, lastDetection, clock, calls, lastWriter>>
  /\ UNCHANGED notSelVars

\* addMirror(mirror)
AddMirror(mirror) ==
  /\ mirrors' = IF mirror \notin Range(mirrors) THEN Append(mirrors, mirror)
                ELSE mirrors
  /\ lastOp' = Op("addMirror", mirror, FALSE)
  /\ UNCHANGED <<cachedBestMirror, lastDetection, clock, calls, lastWriter>>
  /\ UNCHANGED notSelVars

\* mirrors.splice(index, 1)
Splice(s, index) == SubSeq(s, 1, index - 1) \o SubSeq(s, index + 1, Len(s))

\* removeMirror that clears the cache whenever it removes a mirror.
RemoveMirror_AlwaysClears(mirror) ==
  LET index == IF mirror \in Range(mirrors)
               THEN MinOf({i \in 1..Len(mirrors) : mirrors[i] = mirror})
               ELSE 0
  IN /\ mirrors' = IF index > 0 THEN Splice(mirrors, index) ELSE mirrors
     /\ IF index > 0
        THEN cachedBestMirror' = Null /\ lastDetection' = NoDate
        ELSE UNCHANGED <<cachedBestMirror, lastDetection>>
     /\ lastOp' = Op("removeMirror", mirror, index > 0)
     /\ UNCHANGED <<clock, calls, lastWriter>>
     /\ UNCHANGED notSelVars

\* removeMirror(mirror)
RemoveMirror(mirror) ==
  LET index == IF mirror \in Range(mirrors)
               THEN MinOf({i \in 1..Len(mirrors) : mirrors[i] = mirror})
               ELSE 0
  IN /\ mirrors' = IF index > 0 THEN Splice(mirrors, index) ELSE mirrors
     /\ IF index > 0 /\ cachedBestMirror = mirror
        THEN cachedBestMirror' = Null /\ lastDetection' = NoDate
        ELSE UNCHANGED <<cachedBestMirror, lastDetection>>
     /\ lastOp' = Op("removeMirror", mirror,
                     index > 0 /\ cachedBestMirror = mirror)
     /\ UNCHANGED <<clock, calls, lastWriter>>
     /\ UNCHANGED notSelVars

\* resetCache that forgets the mirror and keeps the detection time.
ResetCache_KeepStamp ==
  /\ cachedBestMirror' = Null
  /\ UNCHANGED lastDetection
  /\ lastOp' = Op("resetCache", Null, TRUE)
  /\ UNCHANGED <<mirrors, clock, calls, lastWriter>>
  /\ UNCHANGED notSelVars

\* resetCache()
ResetCache ==
  /\ cachedBestMirror' = Null
  /\ lastDetection' = NoDate
  /\ lastOp' = Op("resetCache", Null, TRUE)
  /\ UNCHANGED <<mirrors, clock, calls, lastWriter>>
  /\ UNCHANGED notSelVars

\* Time passes between two steps of the program.
Tick ==
  /\ clock < MaxClock
  /\ clock' = clock + 1
  /\ UNCHANGED <<mirrors, cachedBestMirror, lastDetection, calls, lastWriter,
                 lastOp>>
  /\ UNCHANGED notSelVars

(***************************************************************************)
(* Inputs of the fetch-URL resolver                                        *)
(***************************************************************************)

\* The example proxy of the specification, with username and password.
ProxyWithAuth == <<"h","t","t","p","s",":","/","/","u",":","p","@","m","i","r","r","o","r",".","e","x","a","m","p","l","e","/">>

\* A proxy with username and password, padded with spaces, no trailing slash.
ProxyWithAuthPadded == <<" ","h","t","t","p","s",":","/","/","u","s","r",":","p","w","d","@","m","i","r","r","o","r",".","e","x","a","m","p","l","e"," ">>

\* A proxy without userinfo.
ProxyPlain == <<"h","t","t","p","s",":","/","/","m","i","r","r","o","r",".","e","x","a","m","p","l","e">>

\* A proxy that carries a username only.
ProxyUserOnly == <<"h","t","t","p","s",":","/","/","u","s","r","@","m","i","r","r","o","r",".","e","x","a","m","p","l","e","/">>

\* A proxy that carries a password only.
ProxyPasswordOnly == <<"h","t","t","p","s",":","/","/",":","p","w","d","@","m","i","r","r","o","r",".","e","x","a","m","p","l","e">>

\* A proxy setting new URL cannot parse.
ProxyMalformed == <<"m","i","r","r","o","r",".","e","x","a","m","p","l","e">>

\* settings.githubProxyUrl: absent, blank, or one of the proxies above.
ProxyInputs ==
  {<<>>, <<" "," ">>, ProxyWithAuth, ProxyWithAuthPadded, ProxyPlain, ProxyUserOnly,
   ProxyPasswordOnly, ProxyMalformed}

\* settings.authToken: absent, blank, or a token.
TokenInputs == {<<>>, <<" ">>, <<"g","h","p","_","t","o","k">>}

\* settings.sshKey
SshKeyInputs == {<<>>, <<"K","E","Y">>}

\* settings.sshUser
SshUserInputs == {<<>>, <<"d","e","p","l","o","y">>}

\* settings.githubServerUrl: absent or a GitHub Enterprise server.
ServerInputs == {<<>>, <<"h","t","t","p","s",":","/","/","g","h","e",".","c","o","r","p">>}

\* process.env
EnvInputs ==
  {[GITHUB_SERVER_URL |-> <<>>],
   [GITHUB_SERVER_URL |-> <<"h","t","t","p","s",":","/","/","g","i","t","h","u","b",".","e","x","a","m","p","l","e">>]}

SettingsInputs ==
  [repositoryOwner : {<<"a","c","m","e">>},
   repositoryName : {<<"w","i","d","g","e","t","s">>},
   sshKey : SshKeyInputs,
   sshUser : SshUserInputs,
   githubProxyUrl : ProxyInputs,
   authToken : TokenInputs,
   githubServerUrl : ServerInputs]

\* The settings the selector specification leaves untouched.
IdleSettings ==
  [repositoryOwner |-> <<"a","c","m","e">>, repositoryName |-> <<"w","i","d","g","e","t","s">>,
   sshKey |-> <<>>, sshUser |-> <<>>, githubProxyUrl |-> <<>>,
   authToken |-> <<>>, githubServerUrl |-> <<>>]

(***************************************************************************)
(* getSource, lines 18-63                                                  *)
(***************************************************************************)

\* getSource is entered with any of the settings; the selector is idle.
InitUrl ==
  /\ settings \in SettingsInputs
  /\ env \in EnvInputs
  /\ gitAvailable \in BOOLEAN
  /\ upc = "start"
  /\ fetchUrl = NoValue
  /\ diag = <<>>
  /\ mirrors = [i \in 1..NumMirrors |-> i]
  /\ cachedBestMirror = Null
  /\ lastDetection = NoDate
  /\ clock = 0
  /\ calls = <<>>
  /\ lastWriter = 0
  /\ lastOp = NoOp
  /\ dList = <<>>
  /\ probes = <<>>
  /\ dpc = "idle"
  /\ dResult = NoValue
  /\ dlIn = [authToken |-> <<>>, owner |-> <<>>, repo |-> <<>>, ref |-> <<>>,
             commit |-> <<>>, baseUrl |-> <<>>, proxyUrl |-> <<>>]
  /\ dlEnv = [GITHUB_AUTO_MIRROR |-> <<>>, GITHUB_API_URL |-> <<>>]
  /\ dlpc = "idle"
  /\ attempt = 0
  /\ dlVia = "none"
  /\ archiveUrl = <<>>
  /\ dlMirror = <<>>
  /\ inCatch = FALSE
  /\ requests = <<>>
  /\ warnings = <<>>
  /\ rounds = 0
  /\ dlError = <<>>
  /\ lookups = <<>>
  /\ archive = <<>>
  /\ target = {}
  /\ staging = <<>>
  /\ moved = 0
  /\ mpBase = <<>>
  /\ mpOverride = <<>>
  /\ mpConfig = NoConfig
  /\ mpLog = <<>>
  /\ mpInfo = NoInfo
  /\ mpc = "idle"
  /\ gsIn = NoSource
  /\ gspc = "idle"
  /\ authHelper = FALSE
  /\ authCalls = <<>>
  /\ gitConfig = {}
  /\ gsError = <<>>

\* new SmartMirrorSelector(): the default mirror list, nothing cached; getSource
\* is not running.
InitSel ==
  /\ settings = IdleSettings
  /\ env = [GITHUB_SERVER_URL |-> <<>>]
  /\ gitAvailable = FALSE
  /\ upc = "start"
  /\ fetchUrl = NoValue
  /\ diag = <<>>
  /\ mirrors = [i \in 1..NumMirrors |-> i]
  /\ cachedBestMirror = Null
  /\ lastDetection = NoDate
  /\ clock = 0
  /\ calls = <<>>
  /\ lastWriter = 0
  /\ lastOp = NoOp
  /\ dList = <<>>
  /\ probes = <<>>
  /\ dpc = "idle"
  /\ dResult = NoValue
  /\ dlIn = [authToken |-> <<>>, owner |-> <<>>, repo |-> <<>>, ref |-> <<>>,
             commit |-> <<>>, baseUrl |-> <<>>, proxyUrl |-> <<>>]
  /\ dlEnv = [GITHUB_AUTO_MIRROR |-> <<>>, GITHUB_API_URL |-> <<>>]
  /\ dlpc = "idle"
  /\ attempt = 0
  /\ dlVia = "none"
  /\ archiveUrl = <<>>
  /\ dlMirror = <<>>
  /\ inCatch = FALSE
  /\ requests = <<>>
  /\ warnings = <<>>
  /\ rounds = 0
  /\ dlError = <<>>
  /\ lookups = <<>>
  /\ archive = <<>>
  /\ target = {}
  /\ staging = <<>>
  /\ moved = 0
  /\ mpBase = <<>>
  /\ mpOverride = <<>>
  /\ mpConfig = NoConfig
  /\ mpLog = <<>>
  /\ mpInfo = NoInfo
  /\ mpc = "idle"
  /\ gsIn = NoSource
  /\ gspc = "idle"
  /\ authHelper = FALSE
  /\ authCalls = <<>>
  /\ gitConfig = {}
  /\ gsError = <<>>

\* getSource lines 24-39: the proxy banner.
GetSourceBanner ==
  /\ upc = "start"
  /\ diag' = diag \o GetSourceProxyDiag(settings)
  /\ upc' = "logged"
  /\ UNCHANGED <<settings, env, gitAvailable, fetchUrl>>
  /\ UNCHANGED notUrlVars

\* getSource line 41: repositoryUrl = getFetchUrl(settings).
ResolveFetchUrl ==
  LET r == GetFetchUrl(settings, env)
  IN /\ upc = "logged"
     /\ upc' = IF r.threw THEN "failed" ELSE "resolved"
     /\ fetchUrl' = r.value
     /\ diag' = diag \o r.diag
     /\ UNCHANGED <<settings, env, gitAvailable>>
     /\ UNCHANGED notUrlVars

\* getSource lines 61-63 with a git and a proxy: configureGitProxy. configOk
\* FALSE is the first git.config call throwing.
ConfigureProxy(testOk, configOk) ==
  LET r == ConfigureGitProxy(settings, testOk, configOk)
  IN /\ upc = "resolved"
     /\ gitAvailable
     /\ Trim(settings.githubProxyUrl) # <<>>
     /\ upc' = IF r.threw THEN "failed" ELSE "configured"
     /\ diag' = diag \o r.diag
     /\ UNCHANGED <<settings, env, gitAvailable, fetchUrl>>
     /\ UNCHANGED notUrlVars

\* getSource lines 61-63 without a git or without a proxy: nothing to configure.
SkipConfigureProxy ==
  /\ upc = "resolved"
  /\ ~(gitAvailable /\ Trim(settings.githubProxyUrl) # <<>>)
  /\ upc' = "configured"
  /\ UNCHANGED <<settings, env, gitAvailable, fetchUrl, diag>>
  /\ UNCHANGED notUrlVars

UrlNext ==
  \/ GetSourceBanner
  \/ ResolveFetchUrl
  \/ \E testOk \in BOOLEAN, configOk \in BOOLEAN : ConfigureProxy(testOk, configOk)
  \/ SkipConfigureProxy

\* getSource from its entry to the git proxy configuration, for every setting.
SpecUrl == InitUrl /\ [][UrlNext]_vars

(***************************************************************************)
(* Properties of the fetch-URL resolver                                    *)
(***************************************************************************)

\* getFetchUrl has returned.
Resolved == upc \in {"resolved", "configured"} \/ (upc = "failed" /\ fetchUrl # NoValue)

\* The proxy setting as new URL sees it.
ProxyObj == ParseUrl(Trim(settings.githubProxyUrl))

HasProxy == Trim(settings.githubProxyUrl) # <<>>

HasProxyAuth ==
  HasProxy /\ ProxyObj.ok /\ ProxyObj.username # <<>> /\ ProxyObj.password # <<>>

HasToken == Trim(settings.authToken) # <<>>

\* The server the settings and the environment name.
ServerObj ==
  ParseUrl(IF Trim(settings.githubServerUrl) # <<>> THEN settings.githubServerUrl
           ELSE IF env.GITHUB_SERVER_URL # <<>> THEN env.GITHUB_SERVER_URL
           ELSE <<"h","t","t","p","s",":","/","/","g","i","t","h","u","b",".","c","o","m">>)

\* <origin-https-url>: https://<host>/<owner>/<repo>
OriginHttpsUrl ==
  ServerObj.protocol \o <<"/","/">> \o ServerObj.hostname \o <<"/">>
    \o settings.repositoryOwner \o <<"/">> \o settings.repositoryName

\* text shows u where a URL holds its username.
ShowsUsername(text, u) ==
  u # <<>> /\ (Includes(text, <<"/","/">> \o u \o <<":">>) \/ Includes(text, <<"/","/">> \o u \o <<"@">>))

\* text shows p where a URL holds its password.
ShowsPassword(text, p) == p # <<>> /\ Includes(text, <<":">> \o p \o <<"@">>)

\* The source lines among ats that emitted a diagnostic line.
Emitted(ats) == {a \in ats : \E k \in 1..Len(diag) : diag[k].at = a}

\* C1: with an SSH key set getFetchUrl returns <sshUser or "git">@<host>:<owner>/<repo>.git,
\* and the settings that differ from these only in proxy URL and token yield the
\* same string.
SshUrlIgnoresProxyAndToken ==
  (Resolved /\ settings.sshKey # <<>>) =>
    /\ fetchUrl = (IF settings.sshUser = <<>> THEN <<"g","i","t">> ELSE settings.sshUser)
                    \o <<"@">> \o ServerObj.hostname \o <<":">>
                    \o settings.repositoryOwner \o <<"/">>
                    \o settings.repositoryName \o <<".","g","i","t">>
    /\ \A p \in ProxyInputs, t \in TokenInputs :
         GetFetchUrl([settings EXCEPT !.githubProxyUrl = p, !.authToken = t],
                     env).value = fetchUrl

\* C1 witness: an SSH key together with a proxy carrying credentials and a token,
\* resolved to the SSH connection string.
SshUrlWitness ==
  /\ Resolved
  /\ settings.sshKey # <<>>
  /\ settings.sshUser = <<>>
  /\ settings.githubProxyUrl = ProxyWithAuth
  /\ settings.authToken = <<"g","h","p","_","t","o","k">>
  /\ fetchUrl = <<"g","i","t","@","g","i","t","h","u","b",".","c","o","m",":","a","c","m","e","/","w","i","d","g","e","t","s",".","g","i","t">>

\* C2: without an SSH key exactly one branch is taken, in the order proxy with
\* credentials, proxy without, token, bare origin URL; a proxy gives
\* <proxy, one trailing slash stripped>/<origin url> and never the token; the
\* token gives the origin URL with the token as username and x-oauth-basic as
\* password.
FetchUrlPrecedence ==
  (Resolved /\ settings.sshKey = <<>>) =>
    LET proxied == StripTrailingSlash(Trim(settings.githubProxyUrl)) \o <<"/">>
                     \o OriginHttpsUrl
        finals == {"getFetchUrl:52", "getFetchUrl:63", "getFetchUrl:73",
                   "getFetchUrl:78"}
    IN /\ HasProxyAuth =>
            /\ fetchUrl = proxied
            /\ Emitted(finals) = {"getFetchUrl:52"}
       /\ (HasProxy /\ ~HasProxyAuth) =>
            /\ fetchUrl = proxied
            /\ Emitted(finals) = {"getFetchUrl:63"}
       /\ HasProxy => ~Includes(fetchUrl, <<"g","h","p","_","t","o","k">>)
       /\ (~HasProxy /\ HasToken) =>
            /\ fetchUrl = ServerObj.protocol \o <<"/","/">> \o settings.authToken
                            \o <<":","x","-","o","a","u","t","h","-","b","a","s","i","c","@">> \o ServerObj.hostname
                            \o <<"/">> \o settings.repositoryOwner \o <<"/">>
                            \o settings.repositoryName
            /\ Emitted(finals) = {"getFetchUrl:73"}
       /\ (~HasProxy /\ ~HasToken) =>
            /\ fetchUrl = OriginHttpsUrl
            /\ Emitted(finals) = {"getFetchUrl:78"}
       /\ (/\ settings.githubProxyUrl = <<"h","t","t","p","s",":","/","/","u",":","p","@","m","i","r","r","o","r",".","e","x","a","m","p","l","e","/">>
           /\ OriginHttpsUrl = <<"h","t","t","p","s",":","/","/","g","i","t","h","u","b",".","c","o","m","/","a","c","m","e","/","w","i","d","g","e","t","s">>) =>
            fetchUrl = <<"h","t","t","p","s",":","/","/","u",":","p","@","m","i","r","r","o","r",".","e","x","a","m","p","l","e","/","h","t","t","p","s",":","/","/","g","i","t","h","u","b",".","c","o","m","/","a","c","m","e","/","w","i","d","g","e","t","s">>

\* C2 witness: the example of the specification, with a token that the proxy
\* suppresses.
FetchUrlPrecedenceWitness ==
  /\ Resolved
  /\ settings.sshKey = <<>>
  /\ settings.githubProxyUrl = <<"h","t","t","p","s",":","/","/","u",":","p","@","m","i","r","r","o","r",".","e","x","a","m","p","l","e","/">>
  /\ settings.authToken = <<"g","h","p","_","t","o","k">>
  /\ fetchUrl = <<"h","t","t","p","s",":","/","/","u",":","p","@","m","i","r","r","o","r",".","e","x","a","m","p","l","e","/","h","t","t","p","s",":","/","/","g","i","t","h","u","b",".","c","o","m","/","a","c","m","e","/","w","i","d","g","e","t","s">>

\* C3: no diagnostic line derived from a proxy URL with userinfo shows the proxy
\* username or the proxy password.
ProxyCredentialsNeverLogged ==
  ProxyObj.ok =>
    \A k \in 1..Len(diag) :
      /\ ~ShowsUsername(diag[k].text, ProxyObj.username)
      /\ ~ShowsPassword(diag[k].text, ProxyObj.password)

\* C4: in the token branch the logged Final URL does not hold the auth token.
TokenMaskedInFinalUrl ==
  \A k \in 1..Len(diag) :
    diag[k].at = "getFetchUrl:73" => ~Includes(diag[k].text, settings.authToken)

\* C5: with no SSH key and a proxy without username+password the returned URL
\* has no userinfo and does not hold the auth token.
NoCredentialsWithoutProxyAuth ==
  (Resolved /\ settings.sshKey = <<>> /\ HasProxy /\ ~HasProxyAuth) =>
    /\ ~Includes(fetchUrl, <<"@">>)
    /\ HasToken => ~Includes(fetchUrl, Trim(settings.authToken))

\* C6: with no SSH key and a proxy URL that does not parse, getFetchUrl returns
\* the unmodified origin URL and records a warning.
MalformedProxyFallsBack ==
  (upc # "start" /\ upc # "logged" /\ settings.sshKey = <<>> /\ HasProxy /\ ~ProxyObj.ok) =>
    /\ Resolved
    /\ fetchUrl = OriginHttpsUrl
    /\ \E k \in 1..Len(diag) :
         diag[k].level = "warning" /\ diag[k].at \in {"getProxyUrl:157"}

(***************************************************************************)
(* One SmartMirrorSelector used by any number of overlapping callers       *)
(***************************************************************************)

SelNext ==
  \/ \E forceDetection \in BOOLEAN : GetBestMirrorBegin(forceDetection)
  \/ \E i \in 1..Len(calls) :
       \E outcome \in [1..Len(calls[i].list) -> ProbeOutcomes] :
         GetBestMirrorSettle(i, outcome)
  \/ \E mirror \in MirrorUrls : AddMirror(mirror)
  \/ \E mirror \in MirrorUrls : RemoveMirror(mirror)
  \/ ResetCache
  \/ Tick

\* Every interleaving of getBestMirror, addMirror, removeMirror and resetCache on
\* one selector, a detection taking any time to settle.
SpecSel == InitSel /\ [][SelNext]_vars

(***************************************************************************)
(* Properties of the selector cache                                        *)
(***************************************************************************)

\* The calls that ran a detection and have returned.
Detected == {i \in 1..Len(calls) : calls[i].needsDetection /\ calls[i].pc = "done"}

\* C7: the cached best mirror is null or an element of the candidate list.
CachedMirrorIsCandidate ==
  cachedBestMirror = Null \/ cachedBestMirror \in Range(mirrors)

\* C8 as stated: of two getBestMirror(false) calls made within the detection
\* interval of each other at most one runs a detection round.
OneRoundPerTtlWindow ==
  \A i \in 1..Len(calls), j \in 1..Len(calls) :
    (/\ i < j
     /\ ~calls[i].forceDetection
     /\ ~calls[j].forceDetection
     /\ calls[j].now - calls[i].now <= DetectionInterval)
      => ~(calls[i].needsDetection /\ calls[j].needsDetection)

\* C8 as amended: a getBestMirror(false) call that finds the state Cached (a
\* cached mirror whose detection time is at most the interval old) starts no
\* probe and returns the cached mirror; one that finds the detection time older
\* than the interval runs a detection round.
CachedCallStartsNoProbe ==
  [][Len(calls') = Len(calls) + 1 =>
       LET c == calls'[Len(calls')]
       IN ~c.forceDetection =>
            /\ (/\ cachedBestMirror # Null
                /\ lastDetection # NoDate
                /\ clock - lastDetection <= DetectionInterval) =>
                 /\ ~c.needsDetection
                 /\ c.pc = "done"
                 /\ c.list = <<>>
                 /\ c.ret = cachedBestMirror
            /\ (lastDetection # NoDate /\ clock - lastDetection > DetectionInterval) =>
                 (c.needsDetection /\ c.pc = "detecting")]_vars

\* C8 witness: a first call detected a mirror and a second getBestMirror(false)
\* call, made exactly one interval later, was served from the cache.
CachedCallWitness ==
  /\ Len(calls) = 2
  /\ calls[1].needsDetection /\ calls[1].pc = "done" /\ calls[1].detected # Null
  /\ ~calls[2].forceDetection /\ ~calls[2].needsDetection
  /\ calls[2].pc = "done"
  /\ calls[2].ret = calls[1].detected
  /\ calls[2].now - calls[1].now = DetectionInterval
  /\ lastWriter = 1
  /\ cachedBestMirror = calls[1].detected
  /\ lastDetection = calls[1].now

\* C9: a getBestMirror call that finds the cache Empty or expired, or is forced,
\* runs a detection over the candidate list as it is at the call; when the
\* detection settles the cache holds its best mirror (null if none) with the
\* call's time, and the call returns that best mirror.
DetectionOutcomeIsCachedAndReturned ==
  [][/\ Len(calls') = Len(calls) + 1 =>
          LET c == calls'[Len(calls')]
          IN (\/ c.forceDetection
              \/ cachedBestMirror = Null
              \/ lastDetection = NoDate
              \/ clock - lastDetection > DetectionInterval)
               => (c.needsDetection /\ c.pc = "detecting" /\ c.list = mirrors)
     /\ \A i \in 1..Len(calls) :
          (calls[i].pc = "detecting" /\ calls'[i].pc = "done") =>
            /\ calls'[i].detected \in Range(calls[i].list) \cup {Null}
            /\ cachedBestMirror' = calls'[i].detected
            /\ lastDetection' = calls[i].now
            /\ calls'[i].ret = calls'[i].detected]_vars

\* C9 witness: a forced call on a selector that had a mirror cached ran a
\* detection that found no mirror, returned null and left the cache without a
\* mirror.
DetectionOutcomeWitness ==
  /\ Len(calls) = 2
  /\ calls[1].needsDetection /\ calls[1].pc = "done" /\ calls[1].detected # Null
  /\ calls[2].forceDetection /\ calls[2].pc = "done"
  /\ calls[2].now = calls[1].now
  /\ calls[2].detected = Null
  /\ calls[2].ret = Null
  /\ lastWriter = 2
  /\ mirrors # <<>>
  /\ cachedBestMirror = Null
  /\ lastDetection = calls[2].now

\* C10: whatever the interleaving of the calls that detect, the cache holds
\* nothing or the best mirror and the time of one and the same call, the one
\* whose detection settled last; and every call returns null or the best mirror
\* of a detection that has settled.
LastWriterWinsWhole ==
  /\ \/ cachedBestMirror = Null /\ lastDetection = NoDate
     \/ /\ lastWriter \in Detected
        /\ cachedBestMirror = calls[lastWriter].detected
        /\ lastDetection = calls[lastWriter].now
  /\ \A i \in 1..Len(calls) :
       calls[i].pc = "done" =>
         \/ calls[i].ret = Null
         \/ \E d \in Detected : calls[d].detected = calls[i].ret

\* C10 witness: two detections overlapped (the later call settled first), found
\* different mirrors, and the cache holds the pair of the call that settled
\* last, the earlier call.
LastWriterWinsWitness ==
  \E i \in Detected, j \in Detected :
    /\ i < j
    /\ lastWriter = i
    /\ calls[i].now < calls[j].now
    /\ calls[i].detected # Null
    /\ calls[j].detected # Null
    /\ calls[i].detected # calls[j].detected
    /\ cachedBestMirror = calls[i].detected
    /\ lastDetection = calls[i].now

\* The step is a getBestMirror(false) call that runs a detection.
NextCallDetects ==
  (Len(calls') = Len(calls) + 1 /\ ~calls'[Len(calls')].forceDetection) =>
    /\ calls'[Len(calls')].needsDetection
    /\ calls'[Len(calls')].pc = "detecting"

\* C11: removeMirror(m) takes m out of the candidate list and keeps the others in
\* order; when m was in the list and is the cached best mirror, the cached mirror
\* and the detection time are cleared, and a getBestMirror(false) call that comes
\* next runs a detection; when m is not the cached best or not in the list, the
\* cached mirror and the detection time are unchanged.
RemoveMirrorClearsItsCache ==
  [][/\ \A mirror \in MirrorUrls :
          RemoveMirror(mirror) =>
            /\ mirror \notin Range(mirrors')
            /\ mirrors' = SelectSeq(mirrors, LAMBDA x : x # mirror)
            /\ (mirror \in Range(mirrors) /\ cachedBestMirror = mirror) =>
                 (cachedBestMirror' = Null /\ lastDetection' = NoDate)
            /\ (mirror \notin Range(mirrors) \/ cachedBestMirror # mirror) =>
                 (/\ cachedBestMirror' = cachedBestMirror
                  /\ lastDetection' = lastDetection)
     /\ (lastOp.op = "removeMirror" /\ lastOp.cleared) => NextCallDetects]_vars

\* C11 witness: the mirror a detection had cached was removed: it is out of the
\* list, the other mirror is still there, and the cache is Empty.
RemoveMirrorWitness ==
  /\ lastOp.op = "removeMirror"
  /\ lastOp.cleared
  /\ lastWriter \in Detected
  /\ calls[lastWriter].detected = lastOp.mirror
  /\ lastOp.mirror \notin Range(mirrors)
  /\ mirrors # <<>>
  /\ cachedBestMirror = Null
  /\ lastDetection = NoDate

\* C12: addMirror(m) leaves m in the list exactly once, keeps the mirrors that
\* were there in their places, never changes the cached mirror or the detection
\* time, and a second addMirror(m) right after the first changes nothing.
AddMirrorIsIdempotentInsert ==
  [][\A mirror \in MirrorUrls :
       AddMirror(mirror) =>
         /\ Cardinality({i \in 1..Len(mirrors') : mirrors'[i] = mirror}) = 1
         /\ Len(mirrors') >= Len(mirrors)
         /\ SubSeq(mirrors', 1, Len(mirrors)) = mirrors
         /\ cachedBestMirror' = cachedBestMirror
         /\ lastDetection' = lastDetection
         /\ lastOp = Op("addMirror", mirror, FALSE) => mirrors' = mirrors]_vars

\* C12 witness: a mirror that had been removed was added back behind the mirror
\* that stayed, while that one was the cached best; the cache is still Cached.
AddMirrorWitness ==
  /\ lastOp.op = "addMirror"
  /\ Len(mirrors) = 2
  /\ mirrors[2] = lastOp.mirror
  /\ mirrors[1] > mirrors[2]
  /\ cachedBestMirror = mirrors[1]
  /\ lastDetection # NoDate

\* C13: resetCache() clears the cached mirror and the detection time whatever
\* they were and leaves the candidate list alone; a getBestMirror(false) call
\* that comes next runs a detection.
ResetCacheEmptiesCache ==
  [][/\ ResetCache =>
          /\ cachedBestMirror' = Null
          /\ lastDetection' = NoDate
          /\ mirrors' = mirrors
     /\ lastOp.op = "resetCache" => NextCallDetects]_vars

\* C13 witness: the cache was reset while it held a mirror that is still a
\* candidate, and the getBestMirror(false) call made next, at the time of the
\* first detection, is detecting again.
ResetCacheWitness ==
  /\ Len(calls) = 2
  /\ calls[1].pc = "done" /\ calls[1].detected \in Range(mirrors)
  /\ ~calls[2].forceDetection
  /\ calls[2].needsDetection /\ calls[2].pc = "detecting"
  /\ calls[2].now = calls[1].now
  /\ lastWriter = 1
  /\ lastOp.op = "getBestMirror"
  /\ cachedBestMirror = Null
  /\ lastDetection = NoDate
  /\ Len(mirrors) = NumMirrors

(***************************************************************************)
(* detectBestMirror, probe by probe                                        *)
(***************************************************************************)

\* Object.values(POPULAR_GITHUB_MIRRORS); a mirror is named by its place here.
PopularGithubMirrors ==
  <<<<"h","t","t","p","s",":","/","/","g","h","-","p","r","o","x","y",".","c","o","m">>, <<"h","t","t","p","s",":","/","/","g","h","p","r","o","x","y",".","n","e","t">>, <<"h","t","t","p","s",":","/","/","g","i","t","h","u","b",".","m","o","e","y","y",".","x","y","z">>,
    <<"h","t","t","p","s",":","/","/","h","u","b",".","f","a","s","t","g","i","t",".","x","y","z">>, <<"h","t","t","p","s",":","/","/","d","o","w","n","l","o","a","d",".","f","a","s","t","g","i","t",".","o","r","g">>>>

\* A candidate that is no URL: new URL throws on its text.
BadCandidate == Len(PopularGithubMirrors) + 1

\* The text of a candidate.
MirrorText(id) ==
  IF id \in 1..Len(PopularGithubMirrors) THEN PopularGithubMirrors[id]
  ELSE <<"g","h","-","p","r","o","x","y",".","c","o","m">>

\* Longest candidate list detectBestMirror is called with.
MaxCandidates == 3

\* The candidates detectBestMirror is called with.
DetectCandidates == (1..MaxCandidates) \cup {BadCandidate}

\* The lists of distinct candidates.
DetectLists ==
  {l \in UNION {[1..n -> DetectCandidates] : n \in 0..MaxCandidates} :
     \A i \in 1..Len(l), j \in 1..Len(l) : i # j => l[i] # l[j]}

\* The timeout detectBestMirror hands to every probe, in clock ticks: no probe
\* measures more.
DetectTimeout == MaxLatency

\* new GitHubMirrorProxy(baseUrl) throws: parseAuthFromUrl's new URL throws.
MirrorProxyThrows(baseUrl) == ~ParseUrl(baseUrl).ok

\* A probe promise that has not settled.
PendingProbe ==
  [status |-> "pending", kind |-> "none", available |-> FALSE, responseTime |-> 0]

\* A probe promise rejected by the constructor's throw.
RejectedProbe ==
  [status |-> "rejected", kind |-> "invalid-url", available |-> FALSE,
   responseTime |-> 0]

\* What checkAvailability resolves to: response.ok, a non-OK status, the fetch
\* rejecting (network error), or the fetch's timeout firing.
AvailabilityResults ==
  [status : {"fulfilled"}, kind : {"ok"}, available : {TRUE},
   responseTime : 1..DetectTimeout]
    \cup [status : {"fulfilled"}, kind : {"http", "network"}, available : {FALSE},
          responseTime : 1..DetectTimeout]
    \cup [status : {"fulfilled"}, kind : {"timeout"}, available : {FALSE},
          responseTime : {DetectTimeout}]

\* The settled probes as detectBestMirror's aggregation reads them.
ProbeOutcome(p) ==
  [fulfilled |-> p.status = "fulfilled", available |-> p.available,
   responseTime |-> p.responseTime]

\* detectBestMirror(mirrors, timeout) up to its await: mirrors.map runs every
\* async callback to its first suspension, so every constructor has run and
\* every fetch is under way when Promise.allSettled is awaited.
DetectStart ==
  /\ dpc = "idle"
  /\ probes' = [i \in 1..Len(dList) |->
                  IF MirrorProxyThrows(MirrorText(dList[i])) THEN RejectedProbe
                  ELSE PendingProbe]
  /\ dpc' = "probing"
  /\ UNCHANGED <<dList, dResult>>
  /\ UNCHANGED notDetVars

\* The probe of candidate i reaches its terminal state.
ProbeSettle(i, r) ==
  /\ dpc = "probing"
  /\ probes[i].status = "pending"
  /\ probes' = [probes EXCEPT ![i] = r]
  /\ UNCHANGED <<dList, dpc, dResult>>
  /\ UNCHANGED notDetVars

\* What detectBestMirror resolves to from the probes as they are.
DetectionResult ==
  LET outcome == [i \in 1..Len(dList) |-> ProbeOutcome(probes[i])]
  IN [bestMirror |-> DetectBestMirror(dList, outcome).bestMirror,
      results |-> AllResults(dList, outcome, DetectTimeout)]

\* An aggregation that does not wait: it runs as soon as one probe is available.
Aggregate_OnFirstAvailable ==
  /\ dpc = "probing"
  /\ \/ \A i \in 1..Len(probes) : probes[i].status # "pending"
     \/ \E i \in 1..Len(probes) : probes[i].available
  /\ dResult' = DetectionResult
  /\ dpc' = "done"
  /\ UNCHANGED <<dList, probes>>
  /\ UNCHANGED notDetVars

\* Promise.allSettled resolves, when no probe is pending, and lines 785-811 run.
Aggregate ==
  /\ dpc = "probing"
  /\ \A i \in 1..Len(probes) : probes[i].status # "pending"
  /\ dResult' = DetectionResult
  /\ dpc' = "done"
  /\ UNCHANGED <<dList, probes>>
  /\ UNCHANGED notDetVars

\* detectBestMirror is called with any list of candidates.
InitDetect ==
  /\ settings = IdleSettings
  /\ env = [GITHUB_SERVER_URL |-> <<>>]
  /\ gitAvailable = FALSE
  /\ upc = "start"
  /\ fetchUrl = NoValue
  /\ diag = <<>>
  /\ mirrors = [i \in 1..NumMirrors |-> i]
  /\ cachedBestMirror = Null
  /\ lastDetection = NoDate
  /\ clock = 0
  /\ calls = <<>>
  /\ lastWriter = 0
  /\ lastOp = NoOp
  /\ dList \in DetectLists
  /\ probes = <<>>
  /\ dpc = "idle"
  /\ dResult = NoValue
  /\ dlIn = [authToken |-> <<>>, owner |-> <<>>, repo |-> <<>>, ref |-> <<>>,
             commit |-> <<>>, baseUrl |-> <<>>, proxyUrl |-> <<>>]
  /\ dlEnv = [GITHUB_AUTO_MIRROR |-> <<>>, GITHUB_API_URL |-> <<>>]
  /\ dlpc = "idle"
  /\ attempt = 0
  /\ dlVia = "none"
  /\ archiveUrl = <<>>
  /\ dlMirror = <<>>
  /\ inCatch = FALSE
  /\ requests = <<>>
  /\ warnings = <<>>
  /\ rounds = 0
  /\ dlError = <<>>
  /\ lookups = <<>>
  /\ archive = <<>>
  /\ target = {}
  /\ staging = <<>>
  /\ moved = 0
  /\ mpBase = <<>>
  /\ mpOverride = <<>>
  /\ mpConfig = NoConfig
  /\ mpLog = <<>>
  /\ mpInfo = NoInfo
  /\ mpc = "idle"
  /\ gsIn = NoSource
  /\ gspc = "idle"
  /\ authHelper = FALSE
  /\ authCalls = <<>>
  /\ gitConfig = {}
  /\ gsError = <<>>

DetectNext ==
  \/ DetectStart
  \/ \E i \in 1..Len(probes), r \in AvailabilityResults : ProbeSettle(i, r)
  \/ Aggregate

\* One detectBestMirror call, its probes settling in any order.
SpecDetect == InitDetect /\ [][DetectNext]_vars

(***************************************************************************)
(* Properties of detectBestMirror                                          *)
(***************************************************************************)

\* The candidates whose probe reported available = true.
AvailableProbes == {i \in 1..Len(probes) : probes[i].available}

\* C14: bestMirror is an available candidate no available candidate beats: none
\* has a lower responseTime, and none listed earlier has the same; it is
\* undefined exactly when no probe reported available = true; and the probes
\* (A, 200, ok), (B, 50, ok), (C, 10, failed) give B.
BestMirrorIsFastestAvailable ==
  /\ dpc = "done" =>
       /\ (dResult.bestMirror = Null) <=> (AvailableProbes = {})
       /\ AvailableProbes # {} =>
            \E i \in AvailableProbes :
              /\ dResult.bestMirror = dList[i]
              /\ \A j \in AvailableProbes :
                   /\ probes[i].responseTime <= probes[j].responseTime
                   /\ probes[i].responseTime = probes[j].responseTime => i <= j
  /\ DetectBestMirror(<<1, 2, 3>>,
       <<[fulfilled |-> TRUE, available |-> TRUE, responseTime |-> 200],
         [fulfilled |-> TRUE, available |-> TRUE, responseTime |-> 50],
         [fulfilled |-> TRUE, available |-> FALSE, responseTime |-> 10]>>).bestMirror = 2

\* C14 witness: the candidate listed second won with the lowest latency, ahead of
\* an available candidate listed first and of a faster probe that failed.
BestMirrorWitness ==
  /\ dpc = "done"
  /\ Len(dList) = 3
  /\ probes[1].available /\ probes[2].available
  /\ probes[3].status = "fulfilled" /\ ~probes[3].available
  /\ probes[2].responseTime < probes[1].responseTime
  /\ probes[3].responseTime <= probes[2].responseTime
  /\ dResult.bestMirror = dList[2]

\* C15: every probe is under way or settled as soon as detectBestMirror awaits,
\* and the result is produced only in a step that finds no probe pending.
AggregatesAfterEveryProbe ==
  [][/\ (dpc = "idle" /\ dpc' = "probing") =>
          /\ Len(probes') = Len(dList)
          /\ \A i \in 1..Len(dList) : probes'[i].status \in {"pending", "rejected"}
     /\ (dpc # "done" /\ dpc' = "done") =>
          /\ Len(probes) = Len(dList)
          /\ \A i \in 1..Len(probes) : probes[i].status # "pending"
          /\ probes' = probes]_vars

\* C15 witness: the result came after the slowest probe although the candidate
\* listed first, available and fast, was the best all along.
AggregateWitness ==
  /\ dpc = "done"
  /\ Len(dList) = 3
  /\ probes[1].available /\ probes[1].responseTime = 1
  /\ probes[2].kind = "timeout"
  /\ probes[3].available /\ probes[3].responseTime = DetectTimeout
  /\ dResult.bestMirror = dList[1]

\* C16: detectBestMirror resolves, however the probes fail, to a results list
\* with one entry per candidate, in candidate order, each naming its candidate,
\* the failed ones with available = false.
EveryProbeIsReportedByName ==
  dpc = "done" =>
    /\ Len(dResult.results) = Len(dList)
    /\ \A i \in 1..Len(dList) :
         /\ dResult.results[i].mirror = dList[i]
         /\ probes[i].kind # "ok" => ~dResult.results[i].available

(***************************************************************************)
(* The archive download stage of downloadRepository                        *)
(***************************************************************************)

\* text.endsWith(suffix)
EndsWith(text, suffix) ==
  /\ Len(suffix) <= Len(text)
  /\ SubSeq(text, Len(text) - Len(suffix) + 1, Len(text)) = suffix

\* The letters toUpperCase changes, and what it changes them to.
LowerLetters == <<"a","b","c","d","e","f","g","h","i","j","k","l","m","n","o","p","q","r","s","t","u","v","w","x","y","z">>

UpperLetters == <<"A","B","C","D","E","F","G","H","I","J","K","L","M","N","O","P","Q","R","S","T","U","V","W","X","Y","Z">>

\* text.toUpperCase()
ToUpperCase(text) ==
  [i \in 1..Len(text) |->
     IF \E k \in 1..Len(LowerLetters) : LowerLetters[k] = text[i]
     THEN UpperLetters[CHOOSE k \in 1..Len(LowerLetters) : LowerLetters[k] = text[i]]
     ELSE text[i]]

\* pruneSuffix(text, suffix)
PruneSuffix(text, suffix) ==
  IF Len(suffix) > 0 /\ EndsWith(text, suffix)
  THEN SubSeq(text, 1, Len(text) - Len(suffix))
  ELSE text

\* isGhes(url), for a url with content
IsGhes(url) ==
  LET hostname == ToUpperCase(ParseUrl(url).hostname)
  IN /\ hostname # <<"G","I","T","H","U","B",".","C","O","M">>
     /\ ~EndsWith(hostname, <<".","G","H","E",".","C","O","M">>)
     /\ ~EndsWith(hostname, <<".","L","O","C","A","L","H","O","S","T">>)

\* getServerApiUrl(url)
GetServerApiUrl(url, e) ==
  IF HasContentTrim(url)
  THEN LET serverUrl == GetServerUrl(url, [GITHUB_SERVER_URL |-> <<>>])
           apiUrl == IF IsGhes(url)
                     THEN [serverUrl EXCEPT !.pathname = <<"/","a","p","i","/","v","3">>]
                     ELSE [serverUrl EXCEPT !.hostname = <<"a","p","i",".">> \o serverUrl.hostname]
       IN PruneSuffix(UrlToString(apiUrl), <<"/">>)
  ELSE IF e.GITHUB_API_URL # <<>> THEN e.GITHUB_API_URL
  ELSE <<"h","t","t","p","s",":","/","/","a","p","i",".","g","i","t","h","u","b",".","c","o","m">>

\* The originalUrl downloadArchive builds (lines 145-147), not on Windows.
OriginalUrl(in, e) ==
  LET api == GetServerApiUrl(in.baseUrl, e)
      serverUrl == IF api # <<>> THEN api ELSE <<"h","t","t","p","s",":","/","/","a","p","i",".","g","i","t","h","u","b",".","c","o","m">>
  IN serverUrl \o <<"/","r","e","p","o","s","/">> \o in.owner \o <<"/">> \o in.repo \o <<"/","t","a","r","b","a","l","l","/">>
       \o (IF in.commit # <<>> THEN in.commit ELSE in.ref)

\* supportedDomains of a GitHubMirrorProxy built without a config argument.
SupportedDomains ==
  {<<"g","i","t","h","u","b",".","c","o","m">>, <<"a","p","i",".","g","i","t","h","u","b",".","c","o","m">>, <<"r","a","w",".","g","i","t","h","u","b","u","s","e","r","c","o","n","t","e","n","t",".","c","o","m">>,
   <<"c","o","d","e","l","o","a","d",".","g","i","t","h","u","b",".","c","o","m">>, <<"o","b","j","e","c","t","s",".","g","i","t","h","u","b","u","s","e","r","c","o","n","t","e","n","t",".","c","o","m">>}

\* A test that takes any host name ending in a supported one.
IsSupportedDomain_Suffix(hostname) ==
  \E domain \in SupportedDomains :
    hostname = domain \/ EndsWith(hostname, domain)

\* GitHubMirrorProxy.isSupportedDomain(hostname)
IsSupportedDomain(hostname) ==
  \E domain \in SupportedDomains :
    hostname = domain \/ EndsWith(hostname, <<".">> \o domain)

\* The config of new GitHubMirrorProxy(baseUrl), for a baseUrl the constructor
\* does not throw on: parseAuthFromUrl, then normalizeBaseUrl.
MirrorProxyConfig(baseUrl) ==
  LET url == ParseUrl(baseUrl)
      cleanUrl == UrlToString([url EXCEPT !.username = <<>>, !.password = <<>>])
  IN [baseUrl |-> StripTrailingSlash(UrlToString(ParseUrl(cleanUrl))),
      authUsername |-> url.username,
      authToken |-> url.password]

\* A conversion that does not look at the host of the original URL.
ConvertToProxyUrl_AnyHost(config, originalUrl) ==
  LET url == ParseUrl(originalUrl)
      hasAuth == config.authUsername # <<>> /\ config.authToken # <<>>
      baseUrlObj == SetPassword(SetUsername(ParseUrl(config.baseUrl),
                                            config.authUsername),
                                config.authToken)
  IN IF ~url.ok
     THEN [originalUrl |-> originalUrl, proxyUrl |-> originalUrl,
           mirrorDomain |-> <<"u","n","k","n","o","w","n">>, isSupported |-> FALSE, hasAuth |-> FALSE]
     ELSE [originalUrl |-> originalUrl,
           proxyUrl |-> IF hasAuth
                        THEN StripTrailingSlash(UrlToString(baseUrlObj))
                               \o <<"/">> \o originalUrl
                        ELSE config.baseUrl \o <<"/">> \o originalUrl,
           mirrorDomain |-> url.hostname,
           isSupported |-> IsSupportedDomain(url.hostname),
           hasAuth |-> hasAuth]

\* GitHubMirrorProxy.convertToProxyUrl(originalUrl)
ConvertToProxyUrl(config, originalUrl) ==
  LET url == ParseUrl(originalUrl)
      hasAuth == config.authUsername # <<>> /\ config.authToken # <<>>
      baseUrlObj == SetPassword(SetUsername(ParseUrl(config.baseUrl),
                                            config.authUsername),
                                config.authToken)
  IN IF ~url.ok
     THEN [originalUrl |-> originalUrl, proxyUrl |-> originalUrl,
           mirrorDomain |-> <<"u","n","k","n","o","w","n">>, isSupported |-> FALSE, hasAuth |-> FALSE]
     ELSE IF ~IsSupportedDomain(url.hostname)
     THEN [originalUrl |-> originalUrl, proxyUrl |-> originalUrl,
           mirrorDomain |-> url.hostname, isSupported |-> FALSE, hasAuth |-> FALSE]
     ELSE [originalUrl |-> originalUrl,
           proxyUrl |-> IF hasAuth
                        THEN StripTrailingSlash(UrlToString(baseUrlObj))
                               \o <<"/">> \o originalUrl
                        ELSE config.baseUrl \o <<"/">> \o originalUrl,
           mirrorDomain |-> url.hostname,
           isSupported |-> TRUE,
           hasAuth |-> hasAuth]

\* isGitHubMirrorProxy(proxyUrl)
IsGitHubMirrorProxy(proxyUrl) ==
  LET url == ParseUrl(proxyUrl)
  IN /\ url.ok
     /\ \E k \in 1..Len(PopularGithubMirrors) :
          LET mirrorUrl == ParseUrl(PopularGithubMirrors[k])
          IN mirrorUrl.ok /\ url.hostname = mirrorUrl.hostname

\* A downloadArchive that looks for a mirror whenever the flag is set, whether
\* or not a proxy was given.
ArchiveRoute_AutoDespiteProxy(proxyUrl, e) ==
  IF proxyUrl # <<>> /\ IsGitHubMirrorProxy(proxyUrl) THEN "proxy"
  ELSE IF e.GITHUB_AUTO_MIRROR = <<"t","r","u","e">> THEN "auto"
  ELSE "none"

\* The branch downloadArchive takes, lines 150-165.
ArchiveRoute(proxyUrl, e) ==
  IF proxyUrl # <<>> /\ IsGitHubMirrorProxy(proxyUrl) THEN "proxy"
  ELSE IF proxyUrl = <<>> /\ e.GITHUB_AUTO_MIRROR = <<"t","r","u","e">> THEN "auto"
  ELSE "none"

\* Attempts the retry helper makes before it gives up.
MaxAttempts == 2

\* What fetch does with an archive request: an OK response, a non-OK response,
\* or it rejects (network error, timeout).
FetchResults == {"ok", "http", "network"}

\* The message of the error a failed fetch ends in, inside the function named.
FetchError(what, result) ==
  IF result = "http" THEN what \o <<" ","f","a","i","l","e","d",":"," ","5","0","3"," ","S","e","r","v","i","c","e"," ","U","n","a","v","a","i","l","a","b","l","e">>
  ELSE <<"F","e","t","c","h","E","r","r","o","r",":"," ","n","e","t","w","o","r","k"," ","t","i","m","e","o","u","t">>

\* The error downloadWithMirrorProxy throws at line 202.
UnsupportedUrlError == <<"U","R","L"," ","n","o","t"," ","s","u","p","p","o","r","t","e","d"," ","b","y"," ","G","i","t","H","u","b"," ","m","i","r","r","o","r"," ","p","r","o","x","y">>

\* One call of fetch: the URL, the Authorization header sent (<<>> if none) and
\* what came of it.
Request(url, authorization, result) ==
  [attempt |-> attempt, url |-> url, authorization |-> authorization,
   result |-> result]

\* The arguments downloadRepository is called with, and the environment.
DownloadInputs ==
  [authToken : {<<"t","0","k">>},
   owner : {<<"a","c","m","e">>},
   repo : {<<"w","i","d","g","e","t","s">>},
   ref : {<<"m","a","i","n">>},
   commit : {<<>>},
   baseUrl : {<<>>, <<"h","t","t","p","s",":","/","/","g","i","t","h","u","b",".","c","o","m">>, <<"h","t","t","p","s",":","/","/","g","h","e",".","c","o","r","p">>},
   proxyUrl : {<<>>, <<"h","t","t","p","s",":","/","/","g","h","-","p","r","o","x","y",".","c","o","m">>, <<"h","t","t","p","s",":","/","/","u",":","p","@","g","h","p","r","o","x","y",".","n","e","t">>,
               <<"h","t","t","p",":","/","/","p","r","o","x","y",".","c","o","r","p",":","8","0","8","0">>, <<"g","h","-","p","r","o","x","y",".","c","o","m">>}]

\* Values of GITHUB_AUTO_MIRROR: set to true, set to something else, unset.
AutoMirrorValues == {<<"t","r","u","e">>, <<"1">>, <<>>}

\* The probes detectBestMirror(undefined, 3000) can come back with: every
\* popular mirror has a base URL the constructor accepts, so none is rejected.
PopularOutcomes ==
  [1..Len(PopularGithubMirrors) ->
     [fulfilled : {TRUE}, available : BOOLEAN, responseTime : 1..MaxLatency]]

\* downloadRepository is called with a ref: the download stage starts; a
\* selector, if the process has one, is new.
InitDownload ==
  /\ settings = IdleSettings
  /\ env = [GITHUB_SERVER_URL |-> <<>>]
  /\ gitAvailable = FALSE
  /\ upc = "start"
  /\ fetchUrl = NoValue
  /\ diag = <<>>
  /\ mirrors = [i \in 1..Len(PopularGithubMirrors) |-> i]
  /\ cachedBestMirror = Null
  /\ lastDetection = NoDate
  /\ clock = 0
  /\ calls = <<>>
  /\ lastWriter = 0
  /\ lastOp = NoOp
  /\ dList = <<>>
  /\ probes = <<>>
  /\ dpc = "idle"
  /\ dResult = NoValue
  /\ dlIn \in DownloadInputs
  /\ dlEnv \in [GITHUB_AUTO_MIRROR : AutoMirrorValues, GITHUB_API_URL : {<<>>}]
  /\ dlpc = "idle"
  /\ attempt = 0
  /\ dlVia = "none"
  /\ archiveUrl = <<>>
  /\ dlMirror = <<>>
  /\ inCatch = FALSE
  /\ requests = <<>>
  /\ warnings = <<>>
  /\ rounds = 0
  /\ dlError = <<>>
  /\ lookups = <<>>
  /\ archive = <<>>
  /\ target = {}
  /\ staging = <<>>
  /\ moved = 0
  /\ mpBase = <<>>
  /\ mpOverride = <<>>
  /\ mpConfig = NoConfig
  /\ mpLog = <<>>
  /\ mpInfo = NoInfo
  /\ mpc = "idle"
  /\ gsIn = NoSource
  /\ gspc = "idle"
  /\ authHelper = FALSE
  /\ authCalls = <<>>
  /\ gitConfig = {}
  /\ gsError = <<>>

\* The environment changes GITHUB_AUTO_MIRROR between two attempts.
SetAutoMirror(value) ==
  /\ dlpc = "thrown"
  /\ value # dlEnv.GITHUB_AUTO_MIRROR
  /\ dlEnv' = [dlEnv EXCEPT !.GITHUB_AUTO_MIRROR = value]
  /\ UNCHANGED <<dlIn, dlpc, attempt, dlVia, archiveUrl, dlMirror, inCatch, requests,
                 warnings, rounds, dlError>>
  /\ UNCHANGED notDlVars

\* downloadRepository, lines 33-36: retryHelper.execute makes its first call of
\* the operation.
DownloadRepository ==
  /\ dlpc = "idle"
  /\ dlpc' = "archive"
  /\ attempt' = 1
  /\ UNCHANGED <<dlIn, dlEnv, dlVia, archiveUrl, dlMirror, inCatch, requests, warnings,
                 rounds, dlError>>
  /\ UNCHANGED notDlVars

\* downloadArchive, lines 136-166, up to the call it ends in.
DownloadArchive ==
  /\ dlpc = "archive"
  /\ LET route == ArchiveRoute(dlIn.proxyUrl, dlEnv)
     IN /\ dlVia' = route
        /\ dlpc' = IF route = "proxy" THEN "mirror"
                   ELSE IF route = "auto" THEN "detect"
                   ELSE "direct"
        /\ dlMirror' = IF route = "proxy" THEN dlIn.proxyUrl ELSE <<>>
        /\ warnings' =
             IF route = "none" /\ dlIn.proxyUrl # <<>>
             THEN Append(warnings,
                    <<"T","r","a","d","i","t","i","o","n","a","l"," ","p","r","o","x","y"," ","n","o","t"," ","s","u","p","p","o","r","t","e","d","."," ","U","s","e"," ","G","i","t","H","u","b"," ","m","i","r","r","o","r"," ","p","r","o","x","y"," ","i","n","s","t","e","a","d",":"," ">>
                      \o dlIn.proxyUrl)
             ELSE warnings
  /\ archiveUrl' = OriginalUrl(dlIn, dlEnv)
  /\ inCatch' = FALSE
  /\ UNCHANGED <<dlIn, dlEnv, attempt, requests, rounds, dlError>>
  /\ UNCHANGED notDlVars

\* downloadWithAutoMirror, lines 265-277: detectBestMirror(undefined, 3000)
\* resolves, and the function goes on with the mirror or without.
DownloadWithAutoMirror(outcome) ==
  /\ dlpc = "detect"
  /\ rounds' = rounds + 1
  /\ LET bestMirror ==
           DetectBestMirror([i \in 1..Len(PopularGithubMirrors) |-> i],
                            outcome).bestMirror
     IN IF bestMirror # Null
        THEN dlMirror' = PopularGithubMirrors[bestMirror] /\ dlpc' = "mirror"
        ELSE dlMirror' = <<>> /\ dlpc' = "direct"
  /\ UNCHANGED <<dlIn, dlEnv, attempt, dlVia, archiveUrl, inCatch, requests, warnings,
                 dlError>>
  /\ UNCHANGED notDlVars

\* An error leaves downloadWithMirrorProxy or downloadDirectly: the catch of
\* downloadWithAutoMirror (lines 281-284) takes it if the call was made in its
\* try block; otherwise it ends the attempt.
Throw(message, warned) ==
  IF dlVia = "auto" /\ ~inCatch
  THEN /\ inCatch' = TRUE
       /\ warnings' = Append(warned,
                        <<"M","i","r","r","o","r"," ","a","u","t","o","-","d","e","t","e","c","t","i","o","n"," ","f","a","i","l","e","d",":"," ","E","r","r","o","r",":"," ">> \o message)
       /\ dlpc' = "direct"
       /\ dlError' = dlError
  ELSE /\ inCatch' = inCatch
       /\ warnings' = warned
       /\ dlpc' = "thrown"
       /\ dlError' = message

\* downloadWithMirrorProxy, lines 192-241: up to the fetch and its outcome.
DownloadWithMirrorProxy(result) ==
  /\ dlpc = "mirror"
  /\ IF MirrorProxyThrows(dlMirror)
     THEN /\ Throw(<<"I","n","v","a","l","i","d"," ","m","i","r","r","o","r"," ","p","r","o","x","y"," ","b","a","s","e"," ","U","R","L",":"," ">> \o dlMirror, warnings)
          /\ requests' = requests
     ELSE LET proxyInfo == ConvertToProxyUrl(MirrorProxyConfig(dlMirror), archiveUrl)
              authorization == IF ~proxyInfo.hasAuth /\ dlIn.authToken # <<>>
                               THEN <<"t","o","k","e","n"," ">> \o dlIn.authToken
                               ELSE <<>>
          IN IF ~proxyInfo.isSupported
             THEN /\ Throw(UnsupportedUrlError,
                           Append(warnings,
                             <<"U","R","L"," ","n","o","t"," ","s","u","p","p","o","r","t","e","d"," ","b","y"," ","m","i","r","r","o","r"," ","p","r","o","x","y",":"," ">> \o archiveUrl))
                  /\ requests' = requests
             ELSE /\ requests' = Append(requests,
                                   Request(proxyInfo.proxyUrl, authorization, result))
                  /\ IF result = "ok"
                     THEN /\ dlpc' = "done"
                          /\ UNCHANGED <<warnings, inCatch, dlError>>
                     ELSE /\ dlpc' = "direct"
                          /\ warnings' =
                               Append(warnings,
                                 <<"M","i","r","r","o","r"," ","p","r","o","x","y"," ","d","o","w","n","l","o","a","d"," ","f","a","i","l","e","d",":"," ","E","r","r","o","r",":"," ">>
                                   \o FetchError(<<"M","i","r","r","o","r"," ","p","r","o","x","y">>, result))
                          /\ UNCHANGED <<inCatch, dlError>>
  /\ UNCHANGED <<dlIn, dlEnv, attempt, dlVia, archiveUrl, dlMirror, rounds>>
  /\ UNCHANGED notDlVars

\* downloadDirectly, lines 290-308.
DownloadDirectly(result) ==
  /\ dlpc = "direct"
  /\ requests' = Append(requests,
                   Request(archiveUrl, <<"t","o","k","e","n"," ">> \o dlIn.authToken,
                           result))
  /\ IF result = "ok"
     THEN /\ dlpc' = "done"
          /\ UNCHANGED <<warnings, inCatch, dlError>>
     ELSE Throw(FetchError(<<"D","i","r","e","c","t"," ","d","o","w","n","l","o","a","d">>, result), warnings)
  /\ UNCHANGED <<dlIn, dlEnv, attempt, dlVia, archiveUrl, dlMirror, rounds>>
  /\ UNCHANGED notDlVars

\* The Retry Executor after an attempt has thrown: another attempt while there
\* is one left, else the last error goes to the caller of downloadRepository.
RetryExecute ==
  /\ dlpc = "thrown"
  /\ IF attempt < MaxAttempts
     THEN attempt' = attempt + 1 /\ dlpc' = "archive"
     ELSE attempt' = attempt /\ dlpc' = "failed"
  /\ UNCHANGED <<dlIn, dlEnv, dlVia, archiveUrl, dlMirror, inCatch, requests, warnings,
                 rounds, dlError>>
  /\ UNCHANGED notDlVars

DownloadNext ==
  \/ \E value \in AutoMirrorValues : SetAutoMirror(value)
  \/ DownloadRepository
  \/ DownloadArchive
  \/ \E outcome \in PopularOutcomes : DownloadWithAutoMirror(outcome)
  \/ \E result \in FetchResults : DownloadWithMirrorProxy(result)
  \/ \E result \in FetchResults : DownloadDirectly(result)
  \/ RetryExecute

\* The download stage of one downloadRepository call.
SpecDownload == InitDownload /\ [][DownloadNext]_vars

(***************************************************************************)
(* Properties of the download stage                                        *)
(***************************************************************************)

\* The proxyUrl argument names one of the popular mirrors.
KnownMirrorConfigured ==
  dlIn.proxyUrl # <<>> /\ IsGitHubMirrorProxy(dlIn.proxyUrl)

\* The host the archive is requested from is one a mirror proxy supports.
RequestHostSupported ==
  IsSupportedDomain(ParseUrl(OriginalUrl(dlIn, dlEnv)).hostname)

\* The request went to the origin, not through a mirror.
IsDirectRequest(r) == r.url = OriginalUrl(dlIn, dlEnv)

\* The requests of attempt a, in order.
AttemptRequests(a) == SelectSeq(requests, LAMBDA r : r.attempt = a)

\* Attempt a has ended; it has ended in an error.
AttemptOver(a) ==
  a < attempt \/ (a = attempt /\ dlpc \in {"thrown", "done", "failed"})

AttemptFailed(a) ==
  a < attempt \/ (a = attempt /\ dlpc \in {"thrown", "failed"})

\* C17: with a known mirror configured, every attempt requests the archive
\* through the mirror first, goes on to one direct request exactly when the
\* mirror request failed, and fails only when that direct request failed.
MirrorFirstThenDirect ==
  KnownMirrorConfigured =>
    \A a \in 1..attempt :
      AttemptOver(a) =>
        LET rs == AttemptRequests(a)
        IN /\ Len(rs) >= 1
           /\ ~IsDirectRequest(rs[1])
           /\ rs[1].result = "ok" => Len(rs) = 1
           /\ rs[1].result # "ok" => Len(rs) = 2 /\ IsDirectRequest(rs[2])
           /\ AttemptFailed(a) =>
                IsDirectRequest(rs[Len(rs)]) /\ rs[Len(rs)].result # "ok"

\* C18: when the host of the archive request is not one the mirror supports, no
\* request goes through a mirror, every attempt makes a direct request, and the
\* unsupported-URL error never reaches the caller of downloadRepository.
UnsupportedHostGoesDirect ==
  ~RequestHostSupported =>
    /\ \A i \in 1..Len(requests) : IsDirectRequest(requests[i])
    /\ \A a \in 1..attempt :
         AttemptOver(a) =>
           \E i \in 1..Len(requests) :
             requests[i].attempt = a /\ IsDirectRequest(requests[i])
    /\ ~(dlpc = "failed" /\ dlError = UnsupportedUrlError)

\* The step is downloadWithAutoMirror getting its mirror.
ObtainsMirror == dlpc = "detect" /\ dlpc' # "detect"

\* C19: probes are issued only with no proxy given and GITHUB_AUTO_MIRROR set to
\* true as read in that attempt, and then the mirror is obtained by the
\* selector's getBestMirror: detection runs when the selector needs it and its
\* outcome is left in the selector's cache, else the cached mirror is used; with
\* a mirror the next request goes through it, without one to the origin.
AutoMirrorRunsGetBest ==
  [][/\ rounds' # rounds =>
          dlIn.proxyUrl = <<>> /\ dlEnv.GITHUB_AUTO_MIRROR = <<"t","r","u","e">>
     /\ (dlpc = "archive" /\ dlIn.proxyUrl = <<>>
           /\ dlEnv.GITHUB_AUTO_MIRROR = <<"t","r","u","e">>) => dlpc' = "detect"
     /\ ObtainsMirror =>
          /\ IF NeedsDetection(FALSE, clock)
             THEN rounds' = rounds + 1 /\ lastDetection' = clock
             ELSE rounds' = rounds /\ UNCHANGED <<cachedBestMirror, lastDetection>>
          /\ dlpc' = "mirror" =>
               /\ cachedBestMirror' # Null
               /\ dlMirror' = PopularGithubMirrors[cachedBestMirror']
          /\ dlpc' = "direct" => cachedBestMirror' = Null]_vars

\* What holds of the probes the code does issue: only with no proxy given and
\* the flag read as true in that attempt; a mirror found is the one the next
\* request goes through.
ProbesOnlyWhenAutoMirror ==
  [][/\ rounds' # rounds =>
          dlIn.proxyUrl = <<>> /\ dlEnv.GITHUB_AUTO_MIRROR = <<"t","r","u","e">>
     /\ (dlpc = "archive" /\ dlIn.proxyUrl = <<>>
           /\ dlEnv.GITHUB_AUTO_MIRROR = <<"t","r","u","e">>) => dlpc' = "detect"
     /\ ObtainsMirror => rounds' = rounds + 1]_vars

\* The warning downloadArchive gives for a proxy that is no known mirror.
TraditionalProxyWarning ==
  <<"T","r","a","d","i","t","i","o","n","a","l"," ","p","r","o","x","y"," ","n","o","t"," ","s","u","p","p","o","r","t","e","d","."," ","U","s","e"," ","G","i","t","H","u","b"," ","m","i","r","r","o","r"," ","p","r","o","x","y"," ","i","n","s","t","e","a","d",":"," ">>
    \o dlIn.proxyUrl

\* C20: with a proxy configured whose host is no known mirror, whatever the
\* auto-mirror flag, no probe is issued, every attempt gives the warning and
\* makes exactly one request, to the origin URL with `token <authToken>` in the
\* Authorization header, and nothing is requested from the proxy.
NonMirrorProxyGoesDirect ==
  (dlIn.proxyUrl # <<>> /\ ~IsGitHubMirrorProxy(dlIn.proxyUrl)) =>
    /\ rounds = 0
    /\ dlpc \notin {"detect", "mirror"}
    /\ \A i \in 1..Len(requests) :
         /\ IsDirectRequest(requests[i])
         /\ requests[i].authorization = <<"t","o","k","e","n"," ">> \o dlIn.authToken
    /\ Len(requests) = IF dlpc = "idle" THEN 0
                       ELSE IF dlpc \in {"archive", "direct"} THEN attempt - 1
                       ELSE attempt
    /\ Len(warnings) = IF dlpc = "idle" THEN 0
                       ELSE IF dlpc = "archive" THEN attempt - 1
                       ELSE attempt
    /\ \A i \in 1..Len(warnings) : warnings[i] = TraditionalProxyWarning

\* C20 witness: a download that succeeded directly, with the token, although a
\* non-mirror proxy was configured and GITHUB_AUTO_MIRROR was true.
NonMirrorProxyWitness ==
  /\ dlpc = "done"
  /\ dlIn.proxyUrl = <<"h","t","t","p",":","/","/","p","r","o","x","y",".","c","o","r","p",":","8","0","8","0">>
  /\ dlIn.authToken = <<"t","0","k">>
  /\ dlEnv.GITHUB_AUTO_MIRROR = <<"t","r","u","e">>
  /\ attempt = 2
  /\ Len(requests) = 2
  /\ requests[2].result = "ok"
  /\ requests[2].authorization = <<"t","o","k","e","n"," ","t","0","k">>
  /\ warnings = <<TraditionalProxyWarning, TraditionalProxyWarning>>

(***************************************************************************)
(* downloadRepository from ref resolution to cleanup                       *)
(***************************************************************************)

\* text.startsWith(prefix)
StartsWith(text, prefix) ==
  /\ Len(prefix) <= Len(text)
  /\ SubSeq(text, 1, Len(prefix)) = prefix

\* What octokit.rest.repos.get comes back with: a status and, with 200, the
\* default_branch of the response.
LookupResponse(status, defaultBranch) ==
  [status |-> status, default_branch |-> defaultBranch]

LookupResponses ==
  {LookupResponse(200, <<"m","a","i","n">>), LookupResponse(200, <<"r","e","f","s","/","p","u","l","l","/","1","/","m","e","r","g","e">>),
   LookupResponse(200, <<>>), LookupResponse(404, <<>>),
   LookupResponse(500, <<>>)}

\* The message of the error the lookup ends in.
LookupError(response) ==
  IF response.status = 200 THEN <<"d","e","f","a","u","l","t","_","b","r","a","n","c","h"," ","c","a","n","n","o","t"," ","b","e"," ","e","m","p","t","y">>
  ELSE IF response.status = 404 THEN <<"N","o","t"," ","F","o","u","n","d">>
  ELSE <<"I","n","t","e","r","n","a","l"," ","S","e","r","v","e","r"," ","E","r","r","o","r">>

\* A lookup that takes the repository name as it is written.
DefaultBranchResult_CaseSensitive(repo, response) ==
  LET found == response.status = 200 /\ response.default_branch # <<>>
      wiki == response.status = 404 /\ EndsWith(repo, <<".","W","I","K","I">>)
      result == IF found THEN response.default_branch ELSE <<"m","a","s","t","e","r">>
  IN IF ~found /\ ~wiki
     THEN [threw |-> TRUE, value |-> <<>>, message |-> LookupError(response)]
     ELSE [threw |-> FALSE,
           value |-> IF StartsWith(result, <<"r","e","f","s","/">>) THEN result
                     ELSE <<"r","e","f","s","/","h","e","a","d","s","/">> \o result,
           message |-> <<>>]

\* The callback of getDefaultBranch, lines 104-132, for one response.
DefaultBranchResult(repo, response) ==
  LET found == response.status = 200 /\ response.default_branch # <<>>
      wiki == response.status = 404 /\ EndsWith(ToUpperCase(repo), <<".","W","I","K","I">>)
      result == IF found THEN response.default_branch ELSE <<"m","a","s","t","e","r">>
  IN IF ~found /\ ~wiki
     THEN [threw |-> TRUE, value |-> <<>>, message |-> LookupError(response)]
     ELSE [threw |-> FALSE,
           value |-> IF StartsWith(result, <<"r","e","f","s","/">>) THEN result
                     ELSE <<"r","e","f","s","/","h","e","a","d","s","/">> \o result,
           message |-> <<>>]

\* The warning getDefaultBranch gives when a proxy is configured.
ProxyIgnoredWarning ==
  <<"P","r","o","x","y"," ","c","o","n","f","i","g","u","r","a","t","i","o","n"," ","i","g","n","o","r","e","d"," ","f","o","r"," ","A","P","I"," ","c","a","l","l","s","."," ","O","n","l","y"," ","a","r","c","h","i","v","e"," ","d","o","w","n","l","o","a","d","s"," ","s","u","p","p","o","r","t"," ","m","i","r","r","o","r"," ","p","r","o","x","y",".">>

\* The staging file and the staging directory, named after uuid(). File names
\* are not taken apart by the code and are modelled as plain strings.
ArchivePath == "<uuid>.tar.gz"

ExtractPath == "<uuid>"

\* A top-level entry of an archive: a folder and the names of its children.
Folder(name, children) == [name |-> name, children |-> children]

\* The archives the server may send: no top-level entry, one folder with no,
\* one or two children, two top-level entries.
ArchiveLayouts ==
  {<<>>,
   <<Folder("widgets-abcdef12", <<>>)>>,
   <<Folder("widgets-abcdef12", <<"README.md">>)>>,
   <<Folder("widgets-abcdef12", <<"README.md", "src">>)>>,
   <<Folder("widgets-abcdef12", <<"README.md">>), Folder("pax_global_header", <<>>)>>}

\* The errors of the file-system steps and of the layout check.
WriteError == <<"E","N","O","S","P","C",":"," ","n","o"," ","s","p","a","c","e"," ","l","e","f","t"," ","o","n"," ","d","e","v","i","c","e",","," ","w","r","i","t","e">>

MkdirError == <<"E","A","C","C","E","S",":"," ","p","e","r","m","i","s","s","i","o","n"," ","d","e","n","i","e","d",","," ","m","k","d","i","r">>

ExtractError == <<"T","h","e"," ","p","r","o","c","e","s","s"," ","'","/","u","s","r","/","b","i","n","/","t","a","r","'"," ","f","a","i","l","e","d"," ","w","i","t","h"," ","e","x","i","t"," ","c","o","d","e"," ","2">>

RemoveError == <<"E","B","U","S","Y",":"," ","r","e","s","o","u","r","c","e"," ","b","u","s","y"," ","o","r"," ","l","o","c","k","e","d",","," ","r","m">>

MoveError == <<"E","P","E","R","M",":"," ","o","p","e","r","a","t","i","o","n"," ","n","o","t"," ","p","e","r","m","i","t","t","e","d",","," ","r","e","n","a","m","e">>

LayoutError == <<"E","x","p","e","c","t","e","d"," ","e","x","a","c","t","l","y"," ","o","n","e"," ","d","i","r","e","c","t","o","r","y"," ","i","n","s","i","d","e"," ","a","r","c","h","i","v","e">>

\* The arguments downloadRepository is called with in this part: no mirror.
RepositoryInputs ==
  [authToken : {<<"t","0","k">>},
   owner : {<<"a","c","m","e">>},
   repo : {<<"w","i","d","g","e","t","s">>, <<"w","i","d","g","e","t","s",".","w","i","k","i">>, <<"W","i","d","g","e","t","s",".","W","i","k","i">>},
   ref : {<<>>, <<"r","e","f","s","/","h","e","a","d","s","/","d","e","v">>},
   commit : {<<>>, <<"a","b","c","d","e","f","1","2">>},
   baseUrl : {<<>>},
   proxyUrl : {<<>>, <<"h","t","t","p",":","/","/","p","r","o","x","y",".","c","o","r","p",":","8","0","8","0">>}]

\* downloadRepository is called; repositoryPath is an empty directory.
InitRepository ==
  /\ settings = IdleSettings
  /\ env = [GITHUB_SERVER_URL |-> <<>>]
  /\ gitAvailable = FALSE
  /\ upc = "start"
  /\ fetchUrl = NoValue
  /\ diag = <<>>
  /\ mirrors = [i \in 1..NumMirrors |-> i]
  /\ cachedBestMirror = Null
  /\ lastDetection = NoDate
  /\ clock = 0
  /\ calls = <<>>
  /\ lastWriter = 0
  /\ lastOp = NoOp
  /\ dList = <<>>
  /\ probes = <<>>
  /\ dpc = "idle"
  /\ dResult = NoValue
  /\ dlIn \in RepositoryInputs
  /\ dlEnv = [GITHUB_AUTO_MIRROR |-> <<>>, GITHUB_API_URL |-> <<>>]
  /\ dlpc = "start"
  /\ attempt = 0
  /\ dlVia = "none"
  /\ archiveUrl = <<>>
  /\ dlMirror = <<>>
  /\ inCatch = FALSE
  /\ requests = <<>>
  /\ warnings = <<>>
  /\ rounds = 0
  /\ dlError = <<>>
  /\ lookups = <<>>
  /\ archive \in ArchiveLayouts
  /\ target = {}
  /\ staging = <<>>
  /\ moved = 0
  /\ mpBase = <<>>
  /\ mpOverride = <<>>
  /\ mpConfig = NoConfig
  /\ mpLog = <<>>
  /\ mpInfo = NoInfo
  /\ mpc = "idle"
  /\ gsIn = NoSource
  /\ gspc = "idle"
  /\ authHelper = FALSE
  /\ authCalls = <<>>
  /\ gitConfig = {}
  /\ gsError = <<>>

\* downloadRepository, lines 26-30: whether the default branch is looked up.
ResolveRef ==
  /\ dlpc = "start"
  /\ dlpc' = IF dlIn.ref = <<>> /\ dlIn.commit = <<>> THEN "lookup" ELSE "idle"
  /\ UNCHANGED <<dlIn, dlEnv, attempt, dlVia, archiveUrl, dlMirror, inCatch,
                 requests, warnings, rounds, dlError>>
  /\ UNCHANGED repoVars
  /\ UNCHANGED notRepoVars

\* getDefaultBranch, lines 92-132: one run of the callback handed to
\* retryHelper.execute; its result becomes ref at line 29.
GetDefaultBranch(response) ==
  /\ dlpc = "lookup"
  /\ lookups' = Append(lookups, response)
  /\ warnings' = IF dlIn.proxyUrl # <<>> THEN Append(warnings, ProxyIgnoredWarning)
                 ELSE warnings
  /\ LET result == DefaultBranchResult(dlIn.repo, response)
     IN IF result.threw
        THEN /\ dlError' = result.message
             /\ dlpc' = "lookupThrown"
             /\ dlIn' = dlIn
        ELSE /\ dlError' = dlError
             /\ dlpc' = "idle"
             /\ dlIn' = [dlIn EXCEPT !.ref = result.value]
  /\ UNCHANGED <<dlEnv, attempt, dlVia, archiveUrl, dlMirror, inCatch, requests,
                 rounds>>
  /\ UNCHANGED <<archive, target, staging, moved>>
  /\ UNCHANGED notRepoVars

\* The Retry Executor after a lookup has thrown: another lookup while there is
\* an attempt left, else the last error goes to the caller of downloadRepository.
RetryLookup ==
  /\ dlpc = "lookupThrown"
  /\ dlpc' = IF Len(lookups) < MaxAttempts THEN "lookup" ELSE "failed"
  /\ UNCHANGED <<dlIn, dlEnv, attempt, dlVia, archiveUrl, dlMirror, inCatch,
                 requests, warnings, rounds, dlError>>
  /\ UNCHANGED repoVars
  /\ UNCHANGED notRepoVars

\* downloadRepository rejects with the error of a step after the download.
Reject(message) ==
  /\ dlpc' = "failed"
  /\ dlError' = message

\* Lines 38-44: fs.promises.writeFile(archivePath, archiveData). A failed write
\* may leave a truncated file behind.
WriteArchive(result) ==
  /\ dlpc = "done"
  /\ IF result = "ok"
     THEN dlpc' = "written" /\ dlError' = dlError
     ELSE Reject(WriteError)
  /\ target' = IF result = "failed" THEN target ELSE target \cup {ArchivePath}
  /\ UNCHANGED <<dlIn, dlEnv, attempt, dlVia, archiveUrl, dlMirror, inCatch,
                 requests, warnings, rounds>>
  /\ UNCHANGED <<lookups, archive, staging, moved>>
  /\ UNCHANGED notRepoVars

\* Lines 47-49: io.mkdirP(extractPath).
MakeExtractPath(ok) ==
  /\ dlpc = "written"
  /\ IF ok
     THEN dlpc' = "staged" /\ dlError' = dlError /\ target' = target \cup {ExtractPath}
     ELSE Reject(MkdirError) /\ target' = target
  /\ UNCHANGED <<dlIn, dlEnv, attempt, dlVia, archiveUrl, dlMirror, inCatch,
                 requests, warnings, rounds>>
  /\ UNCHANGED <<lookups, archive, staging, moved>>
  /\ UNCHANGED notRepoVars

\* Lines 50-54: toolCache.extractTar(archivePath, extractPath).
ExtractArchive(ok) ==
  /\ dlpc = "staged"
  /\ IF ok
     THEN dlpc' = "extracted" /\ dlError' = dlError /\ staging' = archive
     ELSE Reject(ExtractError) /\ staging' = staging
  /\ UNCHANGED <<dlIn, dlEnv, attempt, dlVia, archiveUrl, dlMirror, inCatch,
                 requests, warnings, rounds>>
  /\ UNCHANGED <<lookups, archive, target, moved>>
  /\ UNCHANGED notRepoVars

\* Line 55: io.rmRF(archivePath).
RemoveArchive(ok) ==
  /\ dlpc = "extracted"
  /\ IF ok
     THEN dlpc' = "unpacked" /\ dlError' = dlError /\ target' = target \ {ArchivePath}
     ELSE Reject(RemoveError) /\ target' = target
  /\ UNCHANGED <<dlIn, dlEnv, attempt, dlVia, archiveUrl, dlMirror, inCatch,
                 requests, warnings, rounds>>
  /\ UNCHANGED <<lookups, archive, staging, moved>>
  /\ UNCHANGED notRepoVars

\* A layout check that asks for at least one top-level entry.
LocateContentRoot_AtLeastOne ==
  /\ dlpc = "unpacked"
  /\ IF Len(staging) >= 1
     THEN dlpc' = "relocate" /\ dlError' = dlError
     ELSE Reject(LayoutError)
  /\ moved' = 0
  /\ UNCHANGED <<dlIn, dlEnv, attempt, dlVia, archiveUrl, dlMirror, inCatch,
                 requests, warnings, rounds>>
  /\ UNCHANGED <<lookups, archive, target, staging>>
  /\ UNCHANGED notRepoVars

\* Lines 57-66: readdir(extractPath) and the assertion on its length.
LocateContentRoot ==
  /\ dlpc = "unpacked"
  /\ IF Len(staging) = 1
     THEN dlpc' = "relocate" /\ dlError' = dlError
     ELSE Reject(LayoutError)
  /\ moved' = 0
  /\ UNCHANGED <<dlIn, dlEnv, attempt, dlVia, archiveUrl, dlMirror, inCatch,
                 requests, warnings, rounds>>
  /\ UNCHANGED <<lookups, archive, target, staging>>
  /\ UNCHANGED notRepoVars

\* The children the loop at line 69 goes through: readdir(tempRepositoryPath),
\* read once, before the first move.
ContentRootChildren == archive[1].children

\* Lines 69-78, one turn of the loop: io.mv of the next child into
\* repositoryPath under its own name.
Relocate(ok) ==
  /\ dlpc = "relocate"
  /\ moved < Len(ContentRootChildren)
  /\ IF ok
     THEN /\ moved' = moved + 1
          /\ target' = target \cup {ContentRootChildren[moved + 1]}
          /\ staging' = <<Folder(staging[1].name,
                                 SubSeq(ContentRootChildren, moved + 2,
                                        Len(ContentRootChildren)))>>
          /\ UNCHANGED <<dlpc, dlError>>
     ELSE /\ Reject(MoveError)
          /\ UNCHANGED <<moved, target, staging>>
  /\ UNCHANGED <<dlIn, dlEnv, attempt, dlVia, archiveUrl, dlMirror, inCatch,
                 requests, warnings, rounds>>
  /\ UNCHANGED <<lookups, archive>>
  /\ UNCHANGED notRepoVars

\* A cleanup that does not wait for the loop to end.
RemoveExtractPath_Early(ok) ==
  /\ dlpc = "relocate"
  /\ moved >= Len(ContentRootChildren) - 1
  /\ IF ok
     THEN /\ dlpc' = "returned"
          /\ dlError' = dlError
          /\ target' = target \ {ExtractPath}
          /\ staging' = <<>>
     ELSE /\ Reject(RemoveError)
          /\ UNCHANGED <<target, staging>>
  /\ UNCHANGED <<dlIn, dlEnv, attempt, dlVia, archiveUrl, dlMirror, inCatch,
                 requests, warnings, rounds>>
  /\ UNCHANGED <<lookups, archive, moved>>
  /\ UNCHANGED notRepoVars

\* Lines 79-80: io.rmRF(extractPath) after the loop, then downloadRepository
\* returns.
RemoveExtractPath(ok) ==
  /\ dlpc = "relocate"
  /\ moved = Len(ContentRootChildren)
  /\ IF ok
     THEN /\ dlpc' = "returned"
          /\ dlError' = dlError
          /\ target' = target \ {ExtractPath}
          /\ staging' = <<>>
     ELSE /\ Reject(RemoveError)
          /\ UNCHANGED <<target, staging>>
  /\ UNCHANGED <<dlIn, dlEnv, attempt, dlVia, archiveUrl, dlMirror, inCatch,
                 requests, warnings, rounds>>
  /\ UNCHANGED <<lookups, archive, moved>>
  /\ UNCHANGED notRepoVars

RepositoryNext ==
  \/ ResolveRef
  \/ \E response \in LookupResponses : GetDefaultBranch(response)
  \/ RetryLookup
  \/ DownloadRepository
  \/ DownloadArchive
  \/ \E result \in FetchResults : DownloadDirectly(result)
  \/ RetryExecute
  \/ \E result \in {"ok", "failed", "partial"} : WriteArchive(result)
  \/ \E ok \in BOOLEAN : MakeExtractPath(ok)
  \/ \E ok \in BOOLEAN : ExtractArchive(ok)
  \/ \E ok \in BOOLEAN : RemoveArchive(ok)
  \/ LocateContentRoot
  \/ \E ok \in BOOLEAN : Relocate(ok)
  \/ \E ok \in BOOLEAN : RemoveExtractPath(ok)

\* One downloadRepository call without a mirror, from its first line to its
\* return or its rejection.
SpecRepository == InitRepository /\ [][RepositoryNext]_vars

\* downloadRepository is over: it has returned or it has rejected.
RepositoryOver == dlpc \in {"returned", "failed"}

\* C21: whenever downloadRepository is over, with a result or with an error of
\* any step, neither the staging file nor the staging directory is left in the
\* target directory.
StagingRemovedOnEveryExit ==
  RepositoryOver => ArchivePath \notin target /\ ExtractPath \notin target

\* C22: a failure of a cleanup step (the removal of the staging file or of the
\* staging directory) never makes downloadRepository reject.
CleanupFailureNeverEscalates ==
  ~(dlpc = "failed" /\ dlError = RemoveError)

\* The names relocated so far: what the target holds besides the staging names.
Relocated == target \ {ArchivePath, ExtractPath}

\* C23: when the extracted archive has zero or more than one top-level entry,
\* downloadRepository rejects with the archive-layout error and only then,
\* nothing is moved into the target, and the rejection is final: no request is
\* made again and no step follows.
LayoutErrorIsFatal ==
  [][/\ (dlpc = "unpacked" /\ Len(staging) # 1)
          => /\ dlpc' = "failed"
             /\ dlError' = LayoutError
             /\ target' = target
             /\ Relocated' = {}
             /\ requests' = requests
             /\ attempt' = attempt
     /\ (dlError' = LayoutError /\ dlError # LayoutError)
          => dlpc = "unpacked" /\ Len(staging) # 1
     /\ dlpc = "failed" => dlpc' = "failed" /\ requests' = requests]_vars

LayoutWitness ==
  /\ dlpc = "failed"
  /\ dlError = LayoutError
  /\ Len(archive) = 2
  /\ Relocated = {}
  /\ Len(requests) = 1

\* C24: when downloadRepository returns, the archive had exactly one top-level
\* folder, every child of it is in the target under its own name and nothing
\* else is, and the staging file and the staging directory are gone.
ReturnsFullyRelocated ==
  dlpc = "returned"
    => /\ Len(archive) = 1
       /\ target = {archive[1].children[i] : i \in 1..Len(archive[1].children)}
       /\ staging = <<>>

RelocatedWitness ==
  /\ dlpc = "returned"
  /\ Len(archive[1].children) = 2
  /\ target = {"README.md", "src"}

\* The repository names that end in .wiki, whatever the case.
WikiNames == {<<"w","i","d","g","e","t","s",".","w","i","k","i">>, <<"W","i","d","g","e","t","s",".","W","i","k","i">>}

\* The last response a lookup got.
LastLookup == lookups[Len(lookups)]

\* C25: the default branch is looked up exactly when neither ref nor commit is
\* given; a 404 for a wiki repository gives refs/heads/master, any other lookup
\* error is the error downloadRepository rejects with; a branch name that does
\* not start with refs/ is prefixed with refs/heads/; the archive URL ends with
\* the commit when one is given, else with the ref.
DefaultBranchRule ==
  /\ dlpc = "start" => lookups = <<>>
  /\ (dlpc \notin {"start", "lookup"} /\ lookups = <<>>)
       => dlIn.ref # <<>> \/ dlIn.commit # <<>>
  /\ lookups # <<>> => dlIn.commit = <<>>
  /\ dlpc \in {"lookup", "lookupThrown"} => dlIn.ref = <<>>
  /\ (lookups # <<>> /\ dlpc \notin {"lookup", "lookupThrown"} /\ attempt > 0)
       => \/ /\ LastLookup.status = 404
             /\ dlIn.repo \in WikiNames
             /\ dlIn.ref = <<"r","e","f","s","/","h","e","a","d","s","/","m","a","s","t","e","r">>
          \/ /\ LastLookup = LookupResponse(200, <<"m","a","i","n">>)
             /\ dlIn.ref = <<"r","e","f","s","/","h","e","a","d","s","/","m","a","i","n">>
          \/ /\ LastLookup = LookupResponse(200, <<"r","e","f","s","/","p","u","l","l","/","1","/","m","e","r","g","e">>)
             /\ dlIn.ref = <<"r","e","f","s","/","p","u","l","l","/","1","/","m","e","r","g","e">>
  /\ (lookups # <<>> /\ dlpc = "failed" /\ attempt = 0)
       => /\ ~(LastLookup.status = 404 /\ dlIn.repo \in WikiNames)
          /\ LastLookup.status = 200 => LastLookup.default_branch = <<>>
          /\ dlError = LookupError(LastLookup)
          /\ dlIn.ref = <<>>
          /\ requests = <<>>
  /\ archiveUrl # <<>>
       => EndsWith(archiveUrl,
                   <<"/","t","a","r","b","a","l","l","/">> \o (IF dlIn.commit # <<>> THEN dlIn.commit
                                     ELSE dlIn.ref))

WikiWitness ==
  /\ dlpc = "returned"
  /\ dlIn.repo = <<"W","i","d","g","e","t","s",".","W","i","k","i">>
  /\ lookups # <<>>
  /\ LastLookup.status = 404
  /\ archiveUrl = <<"h","t","t","p","s",":","/","/","a","p","i",".","g","i","t","h","u","b",".","c","o","m","/","r","e","p","o","s","/","a","c","m","e","/","W","i","d","g","e","t","s",".","W","i","k","i","/","t","a","r","b","a","l","l","/","r","e","f","s","/","h","e","a","d","s","/","m","a","s","t","e","r">>

(***************************************************************************)
(* GitHubMirrorProxy: construction, convertToProxyUrl, generateReport      *)
(***************************************************************************)

\* The keys of MirrorProxyConfig that carry text of the base URL.
ConfigKeys == {"baseUrl", "authUsername", "authToken"}

\* new GitHubMirrorProxy(baseUrl, config), lines 521-544: the parsed and
\* normalised base URL and its credentials, then `...config` over them. config
\* is a function from some of the keys to their values, <<>> when not given.
GitHubMirrorProxy(baseUrl, config) ==
  IF ~ParseUrl(baseUrl).ok
  THEN [threw |-> TRUE, config |-> NoConfig]
  ELSE [threw |-> FALSE,
        config |-> [key \in ConfigKeys |->
                      IF key \in DOMAIN config THEN config[key]
                      ELSE MirrorProxyConfig(baseUrl)[key]]]

\* The line the constructor hands to core.debug, lines 542-543.
InitializedLine(config) ==
  <<"G","i","t","H","u","b"," ","m","i","r","r","o","r"," ","p","r","o","x","y"," ","i","n","i","t","i","a","l","i","z","e","d",":"," ">> \o config.baseUrl
    \o (IF config.authUsername # <<>> THEN <<" ","(","w","i","t","h"," ","a","u","t","h",")">> ELSE <<>>)

\* generateReport(): the two lines of the report that depend on the base URL
\* and on the credentials.
GenerateReport(config) ==
  <<"-"," ","B","a","s","e"," ","U","R","L",":"," ">> \o config.baseUrl \o <<" ","-"," ","A","u","t","h","e","n","t","i","c","a","t","i","o","n",":"," ">>
    \o (IF config.authUsername # <<>> THEN <<"E","n","a","b","l","e","d">> ELSE <<"D","i","s","a","b","l","e","d">>)

\* The base URLs a proxy object is made from: no userinfo, username and token,
\* username only, token only, and a text new URL rejects.
ProxyBaseUrls ==
  {<<"h","t","t","p","s",":","/","/","g","h","-","p","r","o","x","y",".","c","o","m">>, <<"h","t","t","p","s",":","/","/","a","l","i","c","e",":","s","3","c","r","e","t","@","g","h","-","p","r","o","x","y",".","c","o","m","/">>,
   <<"h","t","t","p","s",":","/","/","a","l","i","c","e","@","g","h","-","p","r","o","x","y",".","c","o","m">>, <<"h","t","t","p","s",":","/","/",":","s","3","c","r","e","t","@","g","h","-","p","r","o","x","y",".","c","o","m">>,
   <<"g","h","-","p","r","o","x","y",".","c","o","m">>}

\* The config arguments: none, other operational parameters only (as in
\* detectBestMirror, line 773), a token, a base URL.
ProxyOverrides ==
  {<<>>,
   [authToken |-> <<"0","t","h","e","r">>],
   [baseUrl |-> <<"h","t","t","p","s",":","/","/","g","h","p","r","o","x","y",".","n","e","t">>],
   [baseUrl |-> <<"h","t","t","p","s",":","/","/","a","l","i","c","e",":","s","3","c","r","e","t","@","g","h","-","p","r","o","x","y",".","c","o","m">>]}

\* The URLs convertToProxyUrl is called with.
OriginalUrls ==
  {<<"h","t","t","p","s",":","/","/","g","i","t","h","u","b",".","c","o","m","/","a","c","m","e","/","w","i","d","g","e","t","s">>,
   <<"h","t","t","p","s",":","/","/","a","p","i",".","g","i","t","h","u","b",".","c","o","m","/","r","e","p","o","s","/","a","c","m","e","/","w","i","d","g","e","t","s","/","t","a","r","b","a","l","l","/","m","a","i","n">>,
   <<"h","t","t","p","s",":","/","/","g","i","s","t",".","g","i","t","h","u","b",".","c","o","m","/","a","c","m","e">>,
   <<"h","t","t","p","s",":","/","/","n","o","t","g","i","t","h","u","b",".","c","o","m","/","a","c","m","e","/","w","i","d","g","e","t","s">>,
   <<"h","t","t","p","s",":","/","/","g","i","t","h","u","b",".","c","o","m",".","e","v","i","l",".","o","r","g","/","a","c","m","e">>,
   <<"h","t","t","p","s",":","/","/","e","x","a","m","p","l","e",".","c","o","m","/","a","c","m","e">>,
   <<"g","i","t","h","u","b",".","c","o","m","/","a","c","m","e","/","w","i","d","g","e","t","s">>}

\* A proxy object is about to be constructed.
InitProxy ==
  /\ settings = IdleSettings
  /\ env = [GITHUB_SERVER_URL |-> <<>>]
  /\ gitAvailable = FALSE
  /\ upc = "start"
  /\ fetchUrl = NoValue
  /\ diag = <<>>
  /\ mirrors = [i \in 1..NumMirrors |-> i]
  /\ cachedBestMirror = Null
  /\ lastDetection = NoDate
  /\ clock = 0
  /\ calls = <<>>
  /\ lastWriter = 0
  /\ lastOp = NoOp
  /\ dList = <<>>
  /\ probes = <<>>
  /\ dpc = "idle"
  /\ dResult = NoValue
  /\ dlIn = [authToken |-> <<>>, owner |-> <<>>, repo |-> <<>>, ref |-> <<>>,
               commit |-> <<>>, baseUrl |-> <<>>, proxyUrl |-> <<>>]
  /\ dlEnv = [GITHUB_AUTO_MIRROR |-> <<>>, GITHUB_API_URL |-> <<>>]
  /\ dlpc = "idle"
  /\ attempt = 0
  /\ dlVia = "none"
  /\ archiveUrl = <<>>
  /\ dlMirror = <<>>
  /\ inCatch = FALSE
  /\ requests = <<>>
  /\ warnings = <<>>
  /\ rounds = 0
  /\ dlError = <<>>
  /\ lookups = <<>>
  /\ archive = <<>>
  /\ target = {}
  /\ staging = <<>>
  /\ moved = 0
  /\ mpBase \in ProxyBaseUrls
  /\ mpOverride \in ProxyOverrides
  /\ mpConfig = NoConfig
  /\ mpLog = <<>>
  /\ mpInfo = NoInfo
  /\ mpc = "new"
  /\ gsIn = NoSource
  /\ gspc = "idle"
  /\ authHelper = FALSE
  /\ authCalls = <<>>
  /\ gitConfig = {}
  /\ gsError = <<>>

\* The constructor, lines 521-544.
Construct ==
  /\ mpc = "new"
  /\ LET made == GitHubMirrorProxy(mpBase, mpOverride)
     IN IF made.threw
        THEN /\ mpc' = "threw"
             /\ UNCHANGED <<mpConfig, mpLog>>
        ELSE /\ mpc' = "ready"
             /\ mpConfig' = made.config
             /\ mpLog' = Append(mpLog, InitializedLine(made.config))
  /\ UNCHANGED <<mpBase, mpOverride, mpInfo>>
  /\ UNCHANGED notProxyVars

\* convertToProxyUrl(originalUrl), lines 549-594.
Convert(originalUrl) ==
  /\ mpc = "ready"
  /\ mpInfo' = ConvertToProxyUrl(mpConfig, originalUrl)
  /\ UNCHANGED <<mpBase, mpOverride, mpConfig, mpLog, mpc>>
  /\ UNCHANGED notProxyVars

\* generateReport(), printed once.
Report ==
  /\ mpc = "ready"
  /\ Len(mpLog) = 1
  /\ mpLog' = Append(mpLog, GenerateReport(mpConfig))
  /\ UNCHANGED <<mpBase, mpOverride, mpConfig, mpInfo, mpc>>
  /\ UNCHANGED notProxyVars

ProxyNext ==
  \/ Construct
  \/ \E originalUrl \in OriginalUrls : Convert(originalUrl)
  \/ Report

\* One proxy object, from its construction on.
SpecProxy == InitProxy /\ [][ProxyNext]_vars

\* The username and the token of the base URL the object was constructed from.
BaseCredentials ==
  LET url == ParseUrl(mpBase)
  IN {url.username, url.password} \ {<<>>}

\* What the object stores and prints of its base URL: getConfig().baseUrl, the
\* debug line of the constructor, the report.
StoredAndLogged == {mpConfig.baseUrl} \cup {mpLog[i] : i \in 1..Len(mpLog)}

\* C26: the stored base URL of a constructed proxy object, and the base URL it
\* prints, never holds the username or the token of the base URL it was
\* constructed from, with or without a config argument.
StoredBaseUrlHasNoCredential ==
  mpc = "ready"
    => \A text \in StoredAndLogged :
         \A credential \in BaseCredentials : ~Includes(text, credential)

\* The same, for the config arguments that have no baseUrl of their own: the
\* credentials are in authUsername and authToken and nowhere else.
StoredBaseUrlCleanWithoutBaseOverride ==
  (mpc = "ready" /\ "baseUrl" \notin DOMAIN mpOverride)
    => /\ \A text \in StoredAndLogged :
            \A credential \in BaseCredentials : ~Includes(text, credential)
       /\ mpConfig.baseUrl = <<"h","t","t","p","s",":","/","/","g","h","-","p","r","o","x","y",".","c","o","m">>
       /\ "authToken" \notin DOMAIN mpOverride
            => BaseCredentials = {mpConfig.authUsername, mpConfig.authToken} \ {<<>>}

\* The original URLs whose host is one of the supported hosts or a subdomain.
SupportedOriginals ==
  {<<"h","t","t","p","s",":","/","/","g","i","t","h","u","b",".","c","o","m","/","a","c","m","e","/","w","i","d","g","e","t","s">>,
   <<"h","t","t","p","s",":","/","/","a","p","i",".","g","i","t","h","u","b",".","c","o","m","/","r","e","p","o","s","/","a","c","m","e","/","w","i","d","g","e","t","s","/","t","a","r","b","a","l","l","/","m","a","i","n">>,
   <<"h","t","t","p","s",":","/","/","g","i","s","t",".","g","i","t","h","u","b",".","c","o","m","/","a","c","m","e">>}

\* What stands in the proxy URL before the separator and the original URL.
ProxyBase ==
  ParseUrl(SubSeq(mpInfo.proxyUrl, 1,
                  Len(mpInfo.proxyUrl) - Len(mpInfo.originalUrl) - 1))

\* The proxy URL is a base, one separator and the original URL unchanged.
Concatenated ==
  /\ mpInfo.isSupported
  /\ EndsWith(mpInfo.proxyUrl, <<"/">> \o mpInfo.originalUrl)
  /\ ProxyBase.ok
  /\ ProxyBase.hostname = ParseUrl(mpConfig.baseUrl).hostname
  /\ ProxyBase.pathname = <<>> \/ ProxyBase.pathname = <<"/">>

\* C27: for an original URL with a supported host the result is supported and
\* its proxy URL is the base URL, a separator and the original URL; a mirror
\* that carries a credential has it embedded as userinfo and hasAuth true, a
\* mirror that carries none gives a proxy URL without userinfo and hasAuth
\* false.
ProxyUrlCarriesMirrorCredentials ==
  mpInfo.originalUrl \in SupportedOriginals
    => /\ Concatenated
       /\ IF mpConfig.authUsername # <<>> \/ mpConfig.authToken # <<>>
          THEN /\ mpInfo.hasAuth
               /\ ProxyBase.username = mpConfig.authUsername
               /\ ProxyBase.password = mpConfig.authToken
          ELSE /\ ~mpInfo.hasAuth
               /\ mpInfo.proxyUrl = mpConfig.baseUrl \o <<"/">> \o mpInfo.originalUrl
               /\ ProxyBase.username = <<>>
               /\ ProxyBase.password = <<>>

\* The same for the mirrors with both a username and a token or with neither,
\* constructed without a baseUrl in the config argument.
ProxyUrlCarriesCompleteCredentials ==
  (/\ mpInfo.originalUrl \in SupportedOriginals
   /\ "baseUrl" \notin DOMAIN mpOverride
   /\ (mpConfig.authUsername # <<>>) <=> (mpConfig.authToken # <<>>))
    => /\ Concatenated
       /\ IF mpConfig.authUsername # <<>>
          THEN /\ mpInfo.hasAuth
               /\ ProxyBase.username = mpConfig.authUsername
               /\ ProxyBase.password = mpConfig.authToken
          ELSE /\ ~mpInfo.hasAuth
               /\ mpInfo.proxyUrl = mpConfig.baseUrl \o <<"/">> \o mpInfo.originalUrl
               /\ ProxyBase.username = <<>>
               /\ ProxyBase.password = <<>>

\* The original URLs whose host is not supported, and the text that is no URL.
UnsupportedOriginals ==
  {<<"h","t","t","p","s",":","/","/","n","o","t","g","i","t","h","u","b",".","c","o","m","/","a","c","m","e","/","w","i","d","g","e","t","s">>, <<"h","t","t","p","s",":","/","/","g","i","t","h","u","b",".","c","o","m",".","e","v","i","l",".","o","r","g","/","a","c","m","e">>,
   <<"h","t","t","p","s",":","/","/","e","x","a","m","p","l","e",".","c","o","m","/","a","c","m","e">>, <<"g","i","t","h","u","b",".","c","o","m","/","a","c","m","e","/","w","i","d","g","e","t","s">>}

\* C28: for an original URL with an unsupported host, or one that does not
\* parse, convertToProxyUrl returns: the proxy URL is the original URL,
\* isSupported and hasAuth are false, whatever credentials the mirror has.
UnsupportedReturnsOriginal ==
  mpInfo.originalUrl \in UnsupportedOriginals
    => /\ mpc = "ready"
       /\ mpInfo.proxyUrl = mpInfo.originalUrl
       /\ ~mpInfo.isSupported
       /\ ~mpInfo.hasAuth

UnsupportedWitness ==
  /\ mpInfo.originalUrl = <<"h","t","t","p","s",":","/","/","e","x","a","m","p","l","e",".","c","o","m","/","a","c","m","e">>
  /\ mpInfo.proxyUrl = <<"h","t","t","p","s",":","/","/","e","x","a","m","p","l","e",".","c","o","m","/","a","c","m","e">>
  /\ mpConfig.authUsername = <<"a","l","i","c","e">>
  /\ mpConfig.authToken = <<"s","3","c","r","e","t">>

\* hostname is domain or what follows one of its dots is.
IsDomainOrSubdomain(hostname, domain) ==
  \/ hostname = domain
  \/ \E k \in 1..Len(hostname) :
       hostname[k] = "." /\ SubSeq(hostname, k + 1, Len(hostname)) = domain

\* C29: the host of an original URL is supported exactly when it is one of the
\* supported host names or a subdomain of one; notgithub.com is not.
SupportedIffDomainOrSubdomain ==
  (mpInfo # NoInfo /\ mpInfo.mirrorDomain # <<"u","n","k","n","o","w","n">>)
    => /\ mpInfo.isSupported
            <=> \E domain \in SupportedDomains :
                  IsDomainOrSubdomain(mpInfo.mirrorDomain, domain)
       /\ mpInfo.mirrorDomain = <<"n","o","t","g","i","t","h","u","b",".","c","o","m">> => ~mpInfo.isSupported
       /\ mpInfo.mirrorDomain = <<"g","i","s","t",".","g","i","t","h","u","b",".","c","o","m">> => mpInfo.isSupported

SubdomainWitness ==
  /\ mpInfo.mirrorDomain = <<"n","o","t","g","i","t","h","u","b",".","c","o","m">>
  /\ ~mpInfo.isSupported
  /\ mpInfo.proxyUrl = mpInfo.originalUrl

(***************************************************************************)
(* getSource: the auth helper in the try block and in the finally block    *)
(***************************************************************************)

\* The settings and the git lookup result getSource is entered with.
SourceInputs ==
  [git : BOOLEAN, persistCredentials : BOOLEAN, setSafeDirectory : BOOLEAN,
   submodules : BOOLEAN, sshKey : BOOLEAN]

\* The errors of lines 107-114 and the error of any awaited step that rejects.
SubmodulesNotSupported ==
  <<"I","n","p","u","t"," ","'","s","u","b","m","o","d","u","l","e","s","'"," ","n","o","t"," ","s","u","p","p","o","r","t","e","d"," ","w","h","e","n"," ","f","a","l","l","i","n","g"," ","b","a","c","k"," ","t","o"," ","d","o","w","n","l","o","a","d"," ","u","s","i","n","g"," ","t","h","e"," ","G","i","t","H","u","b"," ","R","E","S","T"," ","A","P","I",".">>

SshKeyNotSupported ==
  <<"I","n","p","u","t"," ","'","s","s","h","-","k","e","y","'"," ","n","o","t"," ","s","u","p","p","o","r","t","e","d"," ","w","h","e","n"," ","f","a","l","l","i","n","g"," ","b","a","c","k"," ","t","o"," ","d","o","w","n","l","o","a","d"," ","u","s","i","n","g"," ","t","h","e"," ","G","i","t","H","u","b"," ","R","E","S","T"," ","A","P","I",".">>

StepError(step) == <<"r","e","j","e","c","t","e","d",":"," ">> \o step

\* getSource is at line 65: authHelper is null.
InitSource ==
  /\ settings = IdleSettings
  /\ env = [GITHUB_SERVER_URL |-> <<>>]
  /\ gitAvailable = FALSE
  /\ upc = "start"
  /\ fetchUrl = NoValue
  /\ diag = <<>>
  /\ mirrors = [i \in 1..NumMirrors |-> i]
  /\ cachedBestMirror = Null
  /\ lastDetection = NoDate
  /\ clock = 0
  /\ calls = <<>>
  /\ lastWriter = 0
  /\ lastOp = NoOp
  /\ dList = <<>>
  /\ probes = <<>>
  /\ dpc = "idle"
  /\ dResult = NoValue
  /\ dlIn = [authToken |-> <<>>, owner |-> <<>>, repo |-> <<>>, ref |-> <<>>,
               commit |-> <<>>, baseUrl |-> <<>>, proxyUrl |-> <<>>]
  /\ dlEnv = [GITHUB_AUTO_MIRROR |-> <<>>, GITHUB_API_URL |-> <<>>]
  /\ dlpc = "idle"
  /\ attempt = 0
  /\ dlVia = "none"
  /\ archiveUrl = <<>>
  /\ dlMirror = <<>>
  /\ inCatch = FALSE
  /\ requests = <<>>
  /\ warnings = <<>>
  /\ rounds = 0
  /\ dlError = <<>>
  /\ lookups = <<>>
  /\ archive = <<>>
  /\ target = {}
  /\ staging = <<>>
  /\ moved = 0
  /\ mpBase = <<>>
  /\ mpOverride = <<>>
  /\ mpConfig = NoConfig
  /\ mpLog = <<>>
  /\ mpInfo = NoInfo
  /\ mpc = "idle"
  /\ gsIn \in SourceInputs
  /\ gspc = "start"
  /\ authHelper = FALSE
  /\ authCalls = <<>>
  /\ gitConfig = {}
  /\ gsError = <<>>

\* A step of the try block throws: control goes to the finally block with the
\* error pending.
ThrowInTry(message) ==
  /\ gspc' = "finally"
  /\ gsError' = message

\* A step of the try block is over: next comes the step named.
Goto(step) ==
  /\ gspc' = step
  /\ gsError' = gsError

\* Lines 67-69: createAuthHelper when git was found; it may throw.
CreateAuthHelper(ok) ==
  /\ gspc = "start"
  /\ IF ~gsIn.git
     THEN Goto("prepare") /\ authHelper' = authHelper
     ELSE IF ~ok
     THEN ThrowInTry(StepError(<<"c","r","e","a","t","e","A","u","t","h","H","e","l","p","e","r">>)) /\ authHelper' = authHelper
     ELSE /\ authHelper' = TRUE
          /\ Goto(IF gsIn.setSafeDirectory THEN "safeDirectory" ELSE "prepare")
  /\ UNCHANGED <<gsIn, authCalls, gitConfig>>
  /\ UNCHANGED notAuthVars

\* Lines 69-86: configureTempGlobalConfig and the safe.directory entry, whose
\* failure is caught at line 79.
ConfigureTempGlobalConfig(ok) ==
  /\ gspc = "safeDirectory"
  /\ authCalls' = Append(authCalls, "configureTempGlobalConfig")
  /\ IF ok
     THEN Goto("prepare") /\ gitConfig' = gitConfig \cup {"globalConfig"}
     ELSE ThrowInTry(StepError(<<"c","o","n","f","i","g","u","r","e","T","e","m","p","G","l","o","b","a","l","C","o","n","f","i","g">>)) /\ gitConfig' = gitConfig
  /\ UNCHANGED <<gsIn, authHelper>>
  /\ UNCHANGED notAuthVars

\* Lines 89-98: prepareExistingDirectory when the directory exists.
PrepareExistingDirectory(isExisting, ok) ==
  /\ gspc = "prepare"
  /\ IF isExisting /\ ~ok
     THEN ThrowInTry(StepError(<<"p","r","e","p","a","r","e","E","x","i","s","t","i","n","g","D","i","r","e","c","t","o","r","y">>))
     ELSE Goto(IF gsIn.git THEN "init" ELSE "download")
  /\ UNCHANGED <<gsIn, authHelper, authCalls, gitConfig>>
  /\ UNCHANGED notAuthVars

\* Lines 100-127: without git, the two unsupported inputs throw, else
\* downloadRepository is awaited and getSource returns from the try block.
DownloadFallback(ok) ==
  /\ gspc = "download"
  /\ IF gsIn.submodules THEN ThrowInTry(SubmodulesNotSupported)
     ELSE IF gsIn.sshKey THEN ThrowInTry(SshKeyNotSupported)
     ELSE IF ~ok THEN ThrowInTry(StepError(<<"d","o","w","n","l","o","a","d","R","e","p","o","s","i","t","o","r","y">>))
     ELSE Goto("finally")
  /\ UNCHANGED <<gsIn, authHelper, authCalls, gitConfig>>
  /\ UNCHANGED notAuthVars

\* Lines 129-152: setRepositoryPath, init or remoteSetUrl, garbage collection.
InitializeRepository(ok) ==
  /\ gspc = "init"
  /\ IF ok THEN Goto("auth") ELSE ThrowInTry(StepError(<<"g","i","t",".","i","n","i","t">>))
  /\ UNCHANGED <<gsIn, authHelper, authCalls, gitConfig>>
  /\ UNCHANGED notAuthVars

\* Lines 154-161: the helper is created if it was not, then configureAuth.
ConfigureAuth(ok) ==
  /\ gspc = "auth"
  /\ authHelper' = TRUE
  /\ authCalls' = Append(authCalls, "configureAuth")
  /\ IF ok
     THEN Goto("fetch") /\ gitConfig' = gitConfig \cup {"auth"}
     ELSE ThrowInTry(StepError(<<"c","o","n","f","i","g","u","r","e","A","u","t","h">>)) /\ gitConfig' = gitConfig
  /\ UNCHANGED gsIn
  /\ UNCHANGED notAuthVars

\* Lines 163-260: default branch, LFS, fetch, sparse checkout, checkout.
FetchAndCheckout(ok) ==
  /\ gspc = "fetch"
  /\ IF ~ok THEN ThrowInTry(StepError(<<"g","i","t",".","f","e","t","c","h">>))
     ELSE Goto(IF gsIn.submodules THEN "globalAuth" ELSE "commit")
  /\ UNCHANGED <<gsIn, authHelper, authCalls, gitConfig>>
  /\ UNCHANGED notAuthVars

\* Lines 263-267: configureGlobalAuth for the submodules.
ConfigureGlobalAuth(ok) ==
  /\ gspc = "globalAuth"
  /\ authCalls' = Append(authCalls, "configureGlobalAuth")
  /\ IF ok
     THEN Goto("submodules") /\ gitConfig' = gitConfig \cup {"globalConfig", "globalAuth"}
     ELSE ThrowInTry(StepError(<<"c","o","n","f","i","g","u","r","e","G","l","o","b","a","l","A","u","t","h">>)) /\ gitConfig' = gitConfig
  /\ UNCHANGED <<gsIn, authHelper>>
  /\ UNCHANGED notAuthVars

\* Lines 269-283: the submodule proxy, submoduleSync, submoduleUpdate,
\* submoduleForeach.
FetchSubmodules(ok) ==
  /\ gspc = "submodules"
  /\ IF ~ok THEN ThrowInTry(StepError(<<"g","i","t",".","s","u","b","m","o","d","u","l","e","U","p","d","a","t","e">>))
     ELSE Goto(IF gsIn.persistCredentials THEN "submoduleAuth" ELSE "commit")
  /\ UNCHANGED <<gsIn, authHelper, authCalls, gitConfig>>
  /\ UNCHANGED notAuthVars

\* Lines 285-290: configureSubmoduleAuth when credentials are persisted.
ConfigureSubmoduleAuth(ok) ==
  /\ gspc = "submoduleAuth"
  /\ authCalls' = Append(authCalls, "configureSubmoduleAuth")
  /\ IF ok
     THEN Goto("commit") /\ gitConfig' = gitConfig \cup {"submoduleAuth"}
     ELSE ThrowInTry(StepError(<<"c","o","n","f","i","g","u","r","e","S","u","b","m","o","d","u","l","e","A","u","t","h">>)) /\ gitConfig' = gitConfig
  /\ UNCHANGED <<gsIn, authHelper>>
  /\ UNCHANGED notAuthVars

\* Lines 293-309: log1 and checkCommitInfo; the try block ends.
CheckCommitInfo(ok) ==
  /\ gspc = "commit"
  /\ IF ok THEN Goto("finally") ELSE ThrowInTry(StepError(<<"c","h","e","c","k","C","o","m","m","i","t","I","n","f","o">>))
  /\ UNCHANGED <<gsIn, authHelper, authCalls, gitConfig>>
  /\ UNCHANGED notAuthVars

\* getSource settles: it returns, or rejects with the pending error.
Settled(error) == IF error = <<>> THEN "returned" ELSE "failed"

\* Lines 312-317: removeAuth is awaited when credentials are not persisted; if
\* it rejects, its error is what getSource rejects with.
RemoveAuth(ok) ==
  /\ gspc = "finally"
  /\ authHelper
  /\ ~gsIn.persistCredentials
  /\ authCalls' = Append(authCalls, "removeAuth")
  /\ IF ok
     THEN /\ gitConfig' = gitConfig \ {"auth", "submoduleAuth"}
          /\ gsError' = gsError
          /\ gspc' = "removeGlobalConfig"
     ELSE /\ gitConfig' = gitConfig
          /\ gsError' = StepError(<<"r","e","m","o","v","e","A","u","t","h">>)
          /\ gspc' = "failed"
  /\ UNCHANGED <<gsIn, authHelper>>
  /\ UNCHANGED notAuthVars

\* Line 318: removeGlobalConfig is called, not awaited, and getSource settles.
RemoveGlobalConfig ==
  /\ \/ gspc = "removeGlobalConfig"
     \/ gspc = "finally" /\ authHelper /\ gsIn.persistCredentials
  /\ authCalls' = Append(authCalls, "removeGlobalConfig")
  /\ gitConfig' = gitConfig \ {"globalConfig", "globalAuth"}
  /\ gspc' = Settled(gsError)
  /\ UNCHANGED <<gsIn, authHelper, gsError>>
  /\ UNCHANGED notAuthVars

\* Lines 310-320 with authHelper null: nothing to remove.
SettleWithoutHelper ==
  /\ gspc = "finally"
  /\ ~authHelper
  /\ gspc' = Settled(gsError)
  /\ UNCHANGED <<gsIn, authHelper, authCalls, gitConfig, gsError>>
  /\ UNCHANGED notAuthVars

SourceNext ==
  \/ \E ok \in BOOLEAN : CreateAuthHelper(ok)
  \/ \E ok \in BOOLEAN : ConfigureTempGlobalConfig(ok)
  \/ \E isExisting, ok \in BOOLEAN : PrepareExistingDirectory(isExisting, ok)
  \/ \E ok \in BOOLEAN : DownloadFallback(ok)
  \/ \E ok \in BOOLEAN : InitializeRepository(ok)
  \/ \E ok \in BOOLEAN : ConfigureAuth(ok)
  \/ \E ok \in BOOLEAN : FetchAndCheckout(ok)
  \/ \E ok \in BOOLEAN : ConfigureGlobalAuth(ok)
  \/ \E ok \in BOOLEAN : FetchSubmodules(ok)
  \/ \E ok \in BOOLEAN : ConfigureSubmoduleAuth(ok)
  \/ \E ok \in BOOLEAN : CheckCommitInfo(ok)
  \/ \E ok \in BOOLEAN : RemoveAuth(ok)
  \/ RemoveGlobalConfig
  \/ SettleWithoutHelper

\* One getSource call from line 65 to its return or its rejection.
SpecSource == InitSource /\ [][SourceNext]_vars

\* The helper methods called so far.
Called == {authCalls[i] : i \in 1..Len(authCalls)}

\* getSource has returned or rejected.
SourceSettled == gspc \in {"returned", "failed"}

\* C30: whenever getSource has settled after the auth helper was created,
\* removeGlobalConfig has been called, removeAuth has been called exactly when
\* persistCredentials is false, and what configureAuth configured is left only
\* when persistCredentials is true.
AuthRemovedOnEveryExit ==
  (SourceSettled /\ authHelper)
    => /\ "removeGlobalConfig" \in Called
       /\ "removeAuth" \in Called <=> ~gsIn.persistCredentials
       /\ "auth" \in gitConfig => gsIn.persistCredentials

\* The same on the exits on which removeAuth has not rejected; the global
\* config is then removed too.
AuthRemovedUnlessRemoveAuthRejects ==
  (SourceSettled /\ authHelper /\ gsError # StepError(<<"r","e","m","o","v","e","A","u","t","h">>))
    => /\ "removeGlobalConfig" \in Called
       /\ "removeAuth" \in Called <=> ~gsIn.persistCredentials
       /\ "auth" \in gitConfig => gsIn.persistCredentials
       /\ "globalConfig" \notin gitConfig
       /\ "globalAuth" \notin gitConfig

\* The helper is never there on the REST API path.
NoHelperWithoutGit == authHelper => gsIn.git

(***************************************************************************)
(* The caller's token in a download through a configured mirror            *)
(***************************************************************************)

\* downloadRepository with a known mirror as proxyUrl: without userinfo, with
\* username and password, with a username only, with a password only; with and
\* without a token; for github.com and for a GitHub Enterprise server.
MirrorAuthInputs ==
  [authToken : {<<>>, <<"t","0","k">>},
   owner : {<<"a","c","m","e">>},
   repo : {<<"w","i","d","g","e","t","s">>},
   ref : {<<"m","a","i","n">>},
   commit : {<<>>},
   baseUrl : {<<>>, <<"h","t","t","p","s",":","/","/","g","h","e",".","c","o","r","p">>},
   proxyUrl : {<<"h","t","t","p","s",":","/","/","g","h","-","p","r","o","x","y",".","c","o","m">>, <<"h","t","t","p","s",":","/","/","u",":","p","@","g","h","p","r","o","x","y",".","n","e","t">>,
               <<"h","t","t","p","s",":","/","/","u","@","g","h","p","r","o","x","y",".","n","e","t">>, <<"h","t","t","p","s",":","/","/",":","p","@","g","h","p","r","o","x","y",".","n","e","t">>}]

\* The download stage starts with a mirror configured and no auto-detection.
InitMirrorAuth ==
  /\ settings = IdleSettings
  /\ env = [GITHUB_SERVER_URL |-> <<>>]
  /\ gitAvailable = FALSE
  /\ upc = "start"
  /\ fetchUrl = NoValue
  /\ diag = <<>>
  /\ mirrors = [i \in 1..NumMirrors |-> i]
  /\ cachedBestMirror = Null
  /\ lastDetection = NoDate
  /\ clock = 0
  /\ calls = <<>>
  /\ lastWriter = 0
  /\ lastOp = NoOp
  /\ dList = <<>>
  /\ probes = <<>>
  /\ dpc = "idle"
  /\ dResult = NoValue
  /\ dlIn \in MirrorAuthInputs
  /\ dlEnv = [GITHUB_AUTO_MIRROR |-> <<>>, GITHUB_API_URL |-> <<>>]
  /\ dlpc = "idle"
  /\ attempt = 0
  /\ dlVia = "none"
  /\ archiveUrl = <<>>
  /\ dlMirror = <<>>
  /\ inCatch = FALSE
  /\ requests = <<>>
  /\ warnings = <<>>
  /\ rounds = 0
  /\ dlError = <<>>
  /\ lookups = <<>>
  /\ archive = <<>>
  /\ target = {}
  /\ staging = <<>>
  /\ moved = 0
  /\ mpBase = <<>>
  /\ mpOverride = <<>>
  /\ mpConfig = NoConfig
  /\ mpLog = <<>>
  /\ mpInfo = NoInfo
  /\ mpc = "idle"
  /\ gsIn = NoSource
  /\ gspc = "idle"
  /\ authHelper = FALSE
  /\ authCalls = <<>>
  /\ gitConfig = {}
  /\ gsError = <<>>

MirrorAuthNext ==
  \/ DownloadRepository
  \/ DownloadArchive
  \/ \E result \in FetchResults : DownloadWithMirrorProxy(result)
  \/ \E result \in FetchResults : DownloadDirectly(result)
  \/ RetryExecute

\* The download stage of one downloadRepository call through a configured
\* mirror.
SpecMirrorAuth == InitMirrorAuth /\ [][MirrorAuthNext]_vars

\* The userinfo of the mirror URL the caller configured.
MirrorUsername == ParseUrl(dlIn.proxyUrl).username

MirrorPassword == ParseUrl(dlIn.proxyUrl).password

\* The Authorization header that carries the caller's token.
TokenHeader == <<"t","o","k","e","n"," ">> \o dlIn.authToken

\* Request i went to the mirror; it went to the origin as the fallback of a
\* failed mirror request of the same attempt.
IsMirrorRequest(i) == ~IsDirectRequest(requests[i])

IsFallbackRequest(i) ==
  /\ IsDirectRequest(requests[i])
  /\ i > 1
  /\ IsMirrorRequest(i - 1)
  /\ requests[i - 1].attempt = requests[i].attempt
  /\ requests[i - 1].result # "ok"

\* The token rule for the requests of a mirror, given whether the mirror
\* counts as carrying credentials.
TokenRule(embedded) ==
  \A i \in 1..Len(requests) :
    /\ IsMirrorRequest(i)
         => /\ requests[i].authorization \in {<<>>, TokenHeader}
            /\ requests[i].authorization = TokenHeader
                 <=> (~embedded /\ dlIn.authToken # <<>>)
            /\ (embedded /\ dlIn.authToken # <<>>)
                 => ~Includes(requests[i].url, dlIn.authToken)
    /\ IsDirectRequest(requests[i])
         => /\ IsFallbackRequest(i)
            /\ requests[i].authorization = TokenHeader

\* C31: a request to the mirror has the caller's token in its Authorization
\* header exactly when the mirror URL carries no embedded credential and the
\* token is not empty; with an embedded credential the token does not go to
\* the mirror; it goes to the origin only in the fallback of a failed mirror
\* request.
TokenGoesToMirrorWithoutCredentials ==
  TokenRule(MirrorUsername # <<>> \/ MirrorPassword # <<>>)

\* The same for the mirrors whose URL carries a username and a password or
\* neither.
TokenRuleForCompleteCredentials ==
  ((MirrorUsername # <<>>) <=> (MirrorPassword # <<>>))
    => TokenRule(MirrorUsername # <<>>)

(***************************************************************************)
(* The detection timestamp across overlapping getBestMirror calls          *)
(***************************************************************************)

\* C32: a write of lastDetection never replaces a timestamp by an earlier one;
\* a timestamp written after the cache was reset replaces none.
DetectionStampNeverMovesBack ==
  [][(lastDetection # NoDate /\ lastDetection' # NoDate)
       => lastDetection' >= lastDetection]_vars

\* The timestamp moves back only when the call that writes it began before
\* the call whose timestamp it replaces, and so overlapped with it; it is
\* always the time its writer was called at, never a later one.
StampMovesBackOnlyOnOverlap ==
  [][/\ (lastDetection # NoDate /\ lastDetection' # NoDate
           /\ lastDetection' < lastDetection)
          => /\ lastWriter' < lastWriter
             /\ calls[lastWriter'].pc = "detecting"
             /\ calls[lastWriter].pc = "done"
     /\ (lastDetection' # lastDetection /\ lastDetection' # NoDate)
          => /\ lastDetection' = calls[lastWriter'].now
             /\ lastDetection' <= clock]_vars
=============================================================================
